---- MODULE Spec2Model ----
(***************************************************************************)
(* State-machine model of the cancellable task supervision layer of        *)
(* colab-vscode:                                                           *)
(*   - LatestCancelable (common/async.ts): run / cancel / isRunning        *)
(*   - AsyncToggle (common/toggleable.ts): on / off over a LatestCancelable*)
(*   - LanguageClientController (lsp/language-client.ts)                   *)
(* JavaScript is single threaded: every action below is one synchronous    *)
(* stretch of code between two suspension points (an await, a promise      *)
(* continuation, an external completion).                                  *)
(***************************************************************************)
EXTENDS Integers, Sequences, FiniteSets, TLC

(* ---------------------------------------------------------------------- *)
(* Bounds                                                                  *)
(* ---------------------------------------------------------------------- *)
\* Number of run() calls explored on one LatestCancelable instance.
MaxRuns == 4

\* Outcomes of a worker promise: fulfilled, rejected with an ordinary Error,
\* rejected with an Error whose name is "AbortError".
Outcomes == {"ok", "error", "abortError"}

\* ToggleDirection = Lowercase<keyof Toggleable>
ToggleDirection == {"on", "off"}

VARIABLES
  runs,        \* one record per run() call made so far, in call order
  curAbort,    \* LatestCancelable.curAbort: index in runs, 0 = undefined
  lastToggle,  \* AsyncToggle.lastToggle: "none" (undefined), "on", "off"
  reqs,        \* history of on()/off() requests, in call order
  op,          \* the operation executed last: <<name, index of the run it acted on>>
  lcc,         \* LanguageClientController: its fields and its suspended async calls
  disposable,  \* AsyncToggleable: run whose initialize() result is held, 0 = none
  assigned,    \* AssignmentManager: endpoints assigned, oldest first
  notifs,      \* number of assignment-change events fired so far
  rc           \* ConnectionRefreshController, its ConnectionRefreshers, the
               \* timers they set, the clock and the assigned servers' expiries

lccVars == <<lcc, disposable, assigned, notifs>>
vars ==
  <<runs, curAbort, lastToggle, reqs, op, lcc, disposable, assigned, notifs, rc>>

(* ---------------------------------------------------------------------- *)
(* LatestCancelable                                                        *)
(* ---------------------------------------------------------------------- *)
\* A run record:
\*   arg      the argument forwarded to the worker ("none" for a plain worker)
\*   aborted  abort.signal.aborted of the run's own AbortController
\*   phase    "working": the worker's promise is pending
\*            "settled": the worker's promise has settled, the continuation
\*                       of run() (catch / finally) has not executed yet
\*            "done":    run() has executed its finally block
\*   outcome  how the worker's promise settled ("none" while pending)
\*   hook     TRUE iff the AsyncToggle worker invoked turnOn / turnOff
\*   logged   TRUE iff log.error was called for this run
\*   promise  state of the promise returned by run()
NewRun(arg, phase, outcome, hook) ==
  [arg |-> arg, aborted |-> FALSE, phase |-> phase, outcome |-> outcome,
   hook |-> hook, logged |-> FALSE, promise |-> "pending"]

\* Mutant: run() and cancel() forget to abort the current controller.
AbortCurrent_Skip(rs, cur) == rs

\* Mutant: abort() reaches every controller ever created, not only the current.
AbortCurrent_All(rs, cur) ==
  [i \in 1..Len(rs) |-> [rs[i] EXCEPT !.aborted = TRUE]]

\* this.curAbort.abort() on the controller held in curAbort (if any).
AbortCurrent(rs, cur) ==
  IF cur # 0 THEN [rs EXCEPT ![cur].aborted = TRUE] ELSE rs

\* isRunning(): !!this.curAbort && !this.curAbort.signal.aborted
isRunning ==
  curAbort # 0 /\ ~runs[curAbort].aborted

\* The synchronous part of run(...args): abort the previous controller,
\* install a fresh one and invoke the worker, which runs up to its first
\* suspension point and hands back its promise.
StartRun(r) ==
  /\ Len(runs) < MaxRuns
  /\ runs' = Append(AbortCurrent(runs, curAbort), r)
  /\ curAbort' = Len(runs) + 1

\* cancel(): this.curAbort?.abort()
CancelCurrent ==
  /\ runs' = AbortCurrent(runs, curAbort)
  /\ UNCHANGED curAbort

\* Mutant: the catch clause forgets the AbortError name test.
ShouldLog_AnyError(aborted, outcome) ==
  outcome # "ok" /\ ~aborted

\* The catch clause of run(): the error is logged unless the run's signal is
\* aborted or the error is an AbortError.
ShouldLog(aborted, outcome) ==
  outcome = "error" /\ ~aborted

\* The promise returned by run(): the catch clause never rethrows.
RunPromise(outcome) == "fulfilled"

\* Mutant: the finally clause clears curAbort unconditionally.
ClearIfCurrent_Always(cur, i) == 0

\* The finally clause of run(): clear curAbort only if it is still this run's
\* controller.
ClearIfCurrent(cur, i) ==
  IF cur = i THEN 0 ELSE cur

\* The worker's promise of run i settles (external completion).
WorkerSettle(i, out) ==
  /\ i \in 1..Len(runs)
  /\ runs[i].phase = "working"
  /\ runs' = [runs EXCEPT ![i].phase = "settled", ![i].outcome = out]
  /\ op' = <<"settle", i>>
  /\ UNCHANGED <<curAbort, lastToggle, reqs, lccVars, rc>>

\* Mutant: a run whose worker failed takes the recorded direction back.
RunFinish_RevertsOnFailure(i) ==
  /\ i \in 1..Len(runs)
  /\ runs[i].phase = "settled"
  /\ runs' = [runs EXCEPT
                ![i].phase = "done",
                ![i].logged = ShouldLog(runs[i].aborted, runs[i].outcome),
                ![i].promise = RunPromise(runs[i].outcome)]
  /\ curAbort' = ClearIfCurrent(curAbort, i)
  /\ lastToggle' = IF runs[i].outcome = "error" THEN "none" ELSE lastToggle
  /\ op' = <<"finish", i>>
  /\ UNCHANGED <<reqs, lccVars, rc>>

\* The continuation of run() after `await this.worker(...)`: catch, finally.
RunFinish(i) ==
  /\ i \in 1..Len(runs)
  /\ runs[i].phase = "settled"
  /\ runs' = [runs EXCEPT
                ![i].phase = "done",
                ![i].logged = ShouldLog(runs[i].aborted, runs[i].outcome),
                ![i].promise = RunPromise(runs[i].outcome)]
  /\ curAbort' = ClearIfCurrent(curAbort, i)
  /\ op' = <<"finish", i>>
  /\ UNCHANGED <<lastToggle, reqs, lccVars, rc>>

\* run() with a plain worker (the stub of the LatestCancelable tests).
run ==
  /\ StartRun(NewRun("none", "working", "none", FALSE))
  /\ op' = <<"run", Len(runs) + 1>>
  /\ UNCHANGED <<lastToggle, reqs, lccVars, rc>>

\* cancel()
cancel ==
  /\ CancelCurrent
  /\ op' = <<"cancel", curAbort>>
  /\ UNCHANGED <<lastToggle, reqs, lccVars, rc>>

\* cancel(); run() issued back to back in one synchronous stretch.
cancelThenRun ==
  /\ Len(runs) < MaxRuns
  /\ runs' = Append(AbortCurrent(AbortCurrent(runs, curAbort), curAbort),
                    NewRun("none", "working", "none", FALSE))
  /\ curAbort' = Len(runs) + 1
  /\ op' = <<"cancelThenRun", Len(runs) + 1>>
  /\ UNCHANGED <<lastToggle, reqs, lccVars, rc>>

(* ---------------------------------------------------------------------- *)
(* AsyncToggle                                                             *)
(* ---------------------------------------------------------------------- *)
\* Mutant: the worker never compares the direction with lastToggle.
SkipHook_Never(last, to) == FALSE

\* `if (this.lastToggle === to) return;`
SkipHook(last, to) == last = to

\* The runner's worker, run synchronously by run(to): either returns at once
\* (its promise is already fulfilled) or records the direction and invokes the
\* hook, whose promise is pending.
ToggleRun(to) ==
  IF SkipHook(lastToggle, to)
    THEN NewRun(to, "settled", "ok", FALSE)
    ELSE NewRun(to, "working", "none", TRUE)

\* Mutant: the direction is not recorded before the hook is invoked.
toggle_NoRecordBeforeHook(to) ==
  /\ StartRun(ToggleRun(to))
  /\ lastToggle' = lastToggle
  /\ reqs' = Append(reqs, to)
  /\ op' = <<to, Len(runs) + 1>>
  /\ UNCHANGED <<lccVars, rc>>

toggle(to) ==
  /\ StartRun(ToggleRun(to))
  /\ lastToggle' = to
  /\ reqs' = Append(reqs, to)
  /\ op' = <<to, Len(runs) + 1>>
  /\ UNCHANGED <<lccVars, rc>>

\* on(): void this.runner.run("on")
on == toggle("on")

\* off(): void this.runner.run("off")
off == toggle("off")

(* ---------------------------------------------------------------------- *)
(* LanguageClientController                                                *)
(* ---------------------------------------------------------------------- *)
\* Number of external requests (on(), off(), assignment-change events that a
\* listener may act on) explored on one LanguageClientController.
MaxEvents == 3

\* Server endpoints of the environment.
Endpoints == {"A", "B"}

RemoveAt(sq, k) == SubSeq(sq, 1, k - 1) \o SubSeq(sq, k + 1, Len(sq))

\* assignments.latestServer(): the most recently assigned server, if any.
Latest(as) == IF Len(as) = 0 THEN "none" ELSE as[Len(as)]

\* The controller's fields after construction. latestServerEndpoint is declared
\* without initialiser ("undef"); acs holds the aborted flag of every
\* AbortController the controller created, abortController indexes the held one.
\*   clients    every ColabLanguageClient constructed: its endpoint, the number
\*              of dispose() calls made on it, whether one of them returned,
\*              the number of dispose() calls made on its LanguageClient
\*   tasks      the suspended activations of initialize / the listener /
\*              tearDownClient, each at the await it is parked on
\*   listeners  runs whose onDidAssignmentsChange listener is registered
\*   reacted    the number of requests and events that had happened when the
\*              listener last decided to act (history)
\*   failedAt   that number when latestServer() or client.start() last
\*              rejected, 0 if none did (history)
\*   broken     the clients whose start() rejected (history)
LccNew ==
  [client |-> 0, latestServerEndpoint |-> "undef", abortController |-> 1,
   acs |-> <<FALSE>>, clients |-> <<>>, tasks |-> <<>>, listeners |-> {},
   reacted |-> 0, failedAt |-> 0, broken |-> {}]

\* A suspended activation:
\*   kind  "init" (initialize), "listener" (the change listener), "off" (the
\*         tearDownClient call the Disposable does not await)
\*   pc    "fetch"  awaiting assignments.latestServer(signal)
\*         "td"     inside tearDownClient, awaiting client.dispose()
\*         "tdret"  tearDownClient's promise is settled, the caller's
\*                  continuation has not run yet
\*         "start"  awaiting client.start()
\*   next  the caller of tearDownClient: "listener" (line 294), "nosrv"
\*         (line 315), "newer" (line 322), "off" (line 307)
\*   sig   the AbortController whose signal connectToLatest received
\*   srv   endpoint of the fetched latestServer
\*   cl    the client being disposed or started
\*   rn    the toggle run whose turnOn hook awaits this initialize
\*   born  the number of requests and events that had happened when
\*         initialize or the listener was called (history)
NewTask(kind, pc, next, sig, rn, cl) ==
  [kind |-> kind, pc |-> pc, next |-> next, sig |-> sig, srv |-> "none",
   cl |-> cl, rn |-> rn,
   born |-> IF kind = "off" THEN 0 ELSE Len(runs) + notifs]

\* new ColabLanguageClient(...): the constructor builds the language client
\* and its WebSocket.
NewClient(ep) ==
  [endpoint |-> ep, disposals |-> 0, closed |-> FALSE, lsDisposals |-> 0]

\* ColabLanguageClient.dispose() up to its await: nothing once languageClient
\* has been cleared (which happens after the awaited dispose has returned),
\* else languageClient.dispose() is called. lsDisposals counts those calls.
ClientDispose(cl) ==
  [cl EXCEPT !.disposals = @ + 1,
             !.lsDisposals = IF cl.closed THEN @ ELSE @ + 1]

\* Mutant: tearDownClient never calls client.dispose().
TearDownCall_Skip(c) == c

\* tearDownClient up to its first suspension: returns at once without a
\* client, else calls client.dispose() and awaits it.
TearDownCall(c) ==
  IF c.client = 0
    THEN c
    ELSE [c EXCEPT !.clients[c.client] = ClientDispose(@)]

TearDownPc(c) == IF c.client = 0 THEN "tdret" ELSE "td"

\* Task k calls tearDownClient on behalf of `next`.
TearDownFrom(c, k, next, srv) ==
  [TearDownCall(c) EXCEPT
     !.tasks[k] = [@ EXCEPT !.pc = TearDownPc(c), !.next = next,
                            !.srv = srv, !.cl = c.client]]

\* The decision of the change listener: act if a server was added or a removed
\* server's endpoint is latestServerEndpoint.
ShouldAct(c, e) ==
  e.added \/ c.latestServerEndpoint \in e.removed

\* One invocation of the change listener, up to its first await: abort the
\* held controller and call tearDownClient("Server removed").
ListenerCall(c, e) ==
  IF ShouldAct(c, e)
    THEN LET c1 == [c EXCEPT !.acs[c.abortController] = TRUE,
                             !.reacted = Len(runs) + notifs]
         IN [TearDownCall(c1) EXCEPT
               !.tasks = Append(@, NewTask("listener", TearDownPc(c1),
                                           "listener", 0, 0, c1.client))]
    ELSE c

\* The event emitter calls each of the n registered listeners in turn.
RECURSIVE Fire(_, _, _)
Fire(c, e, n) ==
  IF n = 0 THEN c ELSE Fire(ListenerCall(c, e), e, n - 1)

\* The Disposable returned by initialize: unlisten.dispose() and a
\* tearDownClient("Toggled off") that is not awaited.
Dispose(c, rn) ==
  LET c1 == [c EXCEPT !.listeners = @ \ {rn}]
  IN IF c1.client = 0
       THEN c1
       ELSE [TearDownCall(c1) EXCEPT
               !.tasks = Append(@, NewTask("off", "td", "off", 0, 0, c1.client))]

\* initialize up to its first await: subscribe the listener and call
\* connectToLatest with the signal of the held controller.
InitializeCall(c, rn) ==
  [c EXCEPT !.listeners = @ \cup {rn},
            !.tasks = Append(@, NewTask("init", "fetch", "none",
                                        c.abortController, rn, 0))]

\* `signal.onabort`: aborting the signal handed to initialize aborts the held
\* controller.
OnAbort(c, fires) ==
  IF fires THEN [c EXCEPT !.acs[c.abortController] = TRUE] ELSE c

\* A step of task k: the controller after it, and whether the activation has
\* returned ("ok"), thrown ("error") or is parked again ("no").
Parked(c) == [c |-> c, ended |-> "no"]
Ended(c, k, how) ==
  [c |-> [c EXCEPT !.tasks = RemoveAt(@, k),
                   !.failedAt = IF how = "error" THEN Len(runs) + notifs ELSE @],
   ended |-> how]

\* Mutant: connectToLatest never compares the endpoint with
\* latestServerEndpoint.
AfterFetch_NoCompare(c, k, res, latest) ==
  IF res = "error" THEN Ended(c, k, "error")
  ELSE IF latest = "none" THEN Parked(TearDownFrom(c, k, "nosrv", latest))
  ELSE Parked(TearDownFrom(c, k, "newer", latest))

\* connectToLatest after `await this.assignments.latestServer(signal)`.
AfterFetch(c, k, res, latest) ==
  IF res = "error" THEN Ended(c, k, "error")
  ELSE IF latest = "none" THEN Parked(TearDownFrom(c, k, "nosrv", latest))
  ELSE IF latest = c.latestServerEndpoint THEN Ended(c, k, "ok")
  ELSE Parked(TearDownFrom(c, k, "newer", latest))

\* tearDownClient after `await this.client.dispose()`.
AfterDispose(c, k) ==
  LET c1 == [c EXCEPT !.client = 0, !.latestServerEndpoint = "",
                      !.clients[c.tasks[k].cl].closed = TRUE]
  IN IF c.tasks[k].next = "off"
       THEN Ended(c1, k, "ok")
       ELSE Parked([c1 EXCEPT !.tasks[k].pc = "tdret"])

\* The caller of tearDownClient after `await this.tearDownClient(...)`.
AfterTearDown(c, k) ==
  LET t == c.tasks[k]
  IN CASE t.next = "listener" ->
            Parked([c EXCEPT !.acs = Append(@, FALSE),
                             !.abortController = Len(c.acs) + 1,
                             !.tasks[k] = [@ EXCEPT !.pc = "fetch",
                                                    !.sig = Len(c.acs) + 1]])
       [] t.next = "nosrv" -> Ended(c, k, "ok")
       [] OTHER ->
            LET c1 == [c EXCEPT !.latestServerEndpoint = t.srv]
            IN IF c.acs[t.sig]
                 THEN Ended(c1, k, "ok")
                 ELSE Parked([c1 EXCEPT
                                !.clients = Append(@, NewClient(t.srv)),
                                !.client = Len(c.clients) + 1,
                                !.tasks[k] = [@ EXCEPT !.pc = "start",
                                                       !.cl = Len(c.clients) + 1]])

\* connectToLatest after `await this.client.start()`.
AfterStart(c, k, res) ==
  Ended([c EXCEPT !.broken = IF res = "error" THEN @ \cup {c.tasks[k].cl} ELSE @],
        k, res)

\* The turnOn hook of the toggle after `await this.initialize(signal)`: a
\* Disposable obtained under an aborted signal is disposed at once, otherwise
\* it replaces the held one.
TurnOnResume(c, rn) ==
  IF runs[rn].aborted
    THEN [c |-> Dispose(c, rn), held |-> disposable]
    ELSE [c |-> IF disposable # 0 THEN Dispose(c, disposable) ELSE c,
          held |-> rn]

\* A task that parks again goes to the back of lcc.tasks, which therefore
\* lists the suspended activations in the order they suspended.
Requeue(c, k) ==
  [c EXCEPT !.tasks = Append(RemoveAt(@, k), @[k])]

\* Commit the step r of task k, of kind `kind` and belonging to run rn. When
\* initialize returns or throws, the turnOn hook resumes and settles.
Commit(r, k, kind, rn) ==
  /\ UNCHANGED <<curAbort, lastToggle, reqs, op, assigned, notifs, rc>>
  /\ IF kind = "init" /\ r.ended # "no"
       THEN /\ runs' = [runs EXCEPT ![rn].phase = "settled",
                                    ![rn].outcome = r.ended]
            /\ IF r.ended = "ok"
                 THEN /\ lcc' = TurnOnResume(r.c, rn).c
                      /\ disposable' = TurnOnResume(r.c, rn).held
                 ELSE /\ lcc' = r.c
                      /\ UNCHANGED disposable
       ELSE /\ lcc' = IF r.ended = "no" THEN Requeue(r.c, k) ELSE r.c
            /\ UNCHANGED <<runs, disposable>>

\* The continuation of an await on an already settled promise (pc "tdret") is
\* a microtask: it runs before the continuation of any activation that
\* suspended after it, whatever that one awaits.
Runnable(k) ==
  \A j \in 1..(k - 1) : lcc.tasks[j].pc # "tdret"

TaskAt(k, pc) ==
  k \in 1..Len(lcc.tasks) /\ lcc.tasks[k].pc = pc /\ Runnable(k)

\* assignments.latestServer(signal) settles for task k.
FetchDone(k, res) ==
  /\ TaskAt(k, "fetch")
  /\ Commit(AfterFetch(lcc, k, res, Latest(assigned)), k,
            lcc.tasks[k].kind, lcc.tasks[k].rn)

\* client.dispose() returns for task k.
DisposeDone(k) ==
  /\ TaskAt(k, "td")
  /\ Commit(AfterDispose(lcc, k), k, lcc.tasks[k].kind, lcc.tasks[k].rn)

\* The continuation of `await this.tearDownClient(...)` runs for task k.
TearDownDone(k) ==
  /\ TaskAt(k, "tdret")
  /\ Commit(AfterTearDown(lcc, k), k, lcc.tasks[k].kind, lcc.tasks[k].rn)

\* client.start() settles for task k.
StartDone(k, res) ==
  /\ TaskAt(k, "start")
  /\ Commit(AfterStart(lcc, k, res), k, lcc.tasks[k].kind, lcc.tasks[k].rn)

\* The AssignmentManager fires onDidAssignmentsChange with event e after
\* the assignments became `as`.
Notify(as, e) ==
  /\ assigned' = as
  /\ lcc' = Fire(lcc, e, Cardinality(lcc.listeners))
  /\ UNCHANGED <<runs, curAbort, lastToggle, reqs, op, disposable, rc>>

\* Requests made so far.
Events == Len(runs) + notifs + rc.ticks + rc.disposals

InSeq(x, sq) == \E j \in 1..Len(sq) : sq[j] = x

\* A server is assigned: the event lists it as added.
AssignmentAdded(ep) ==
  /\ ~InSeq(ep, assigned)
  /\ Events < MaxEvents
  /\ notifs' = notifs + 1
  /\ Notify(Append(assigned, ep), [added |-> TRUE, removed |-> {}])

\* A server is unassigned: the event lists it as removed.
AssignmentRemoved(ep) ==
  /\ InSeq(ep, assigned)
  /\ Events < MaxEvents
  /\ notifs' = notifs + 1
  /\ Notify(SelectSeq(assigned, LAMBDA x : x # ep),
            [added |-> FALSE, removed |-> {ep}])

\* An assigned server changes (its token is refreshed): the event lists it as
\* changed only.
AssignmentChanged ==
  /\ Len(assigned) > 0
  /\ UNCHANGED notifs
  /\ Notify(assigned, [added |-> FALSE, removed |-> {}])

\* The turnOn hook of the toggle up to its first await: it calls
\* initialize(signal).
TurnOnCall(c, rn) == InitializeCall(c, rn)

\* The turnOff hook of the toggle: dispose the held Disposable, if any.
TurnOffCall(c) ==
  IF disposable # 0 THEN Dispose(c, disposable) ELSE c

\* The runner's worker for the controller: the turnOff hook awaits nothing
\* (the Disposable does not await tearDownClient), so its promise is settled
\* when the worker returns; the turnOn hook is suspended in initialize.
LccToggleRun(to) ==
  IF ~SkipHook(lastToggle, to) /\ to = "off"
    THEN NewRun(to, "settled", "ok", TRUE)
    ELSE ToggleRun(to)

\* on() / off() of the controller: run(to) aborts the current run's signal
\* (firing onabort if that run is in initialize), then the worker runs the
\* hook up to its first await.
lccToggle(to) ==
  LET new == Len(runs) + 1
      fires == /\ curAbort # 0
               /\ ~runs[curAbort].aborted
               /\ runs[curAbort].hook
               /\ runs[curAbort].arg = "on"
      c1 == OnAbort(lcc, fires)
  IN /\ Events < MaxEvents
     /\ StartRun(LccToggleRun(to))
     /\ lastToggle' = to
     /\ reqs' = Append(reqs, to)
     /\ UNCHANGED <<op, assigned, notifs, rc>>
     /\ IF SkipHook(lastToggle, to)
          THEN lcc' = c1 /\ UNCHANGED disposable
          ELSE IF to = "on"
            THEN lcc' = TurnOnCall(c1, new) /\ UNCHANGED disposable
            ELSE /\ lcc' = TurnOffCall(c1)
                 /\ disposable' = 0

\* The continuation of run() for a run of the controller's toggle.
LccRunFinish(i) ==
  /\ i \in 1..Len(runs)
  /\ runs[i].phase = "settled"
  /\ runs' = [runs EXCEPT
                ![i].phase = "done",
                ![i].logged = ShouldLog(runs[i].aborted, runs[i].outcome),
                ![i].promise = RunPromise(runs[i].outcome)]
  /\ curAbort' = ClearIfCurrent(curAbort, i)
  /\ UNCHANGED <<lastToggle, reqs, op, lccVars, rc>>

lccOn == lccToggle("on")
lccOff == lccToggle("off")

(* ---------------------------------------------------------------------- *)
(* ConnectionRefresher, ConnectionRefreshController                        *)
(* ---------------------------------------------------------------------- *)
\* The ids of the servers that may be assigned.
ServerIds == {"s1", "s2"}

\* 5 * 60 * 1000: 5 minutes.
REFRESH_BUFFER_MS == 300000

\* 30 * 1000: 30 seconds.
RETRY_BUFFER_MS == 30000

\* The least delay bufferedRefreshDelay hands to setTimeout.
MinDelayMs == 100

\* The lifetime of a token handed out by a successful refreshConnection
\* (1000 * 60 * 60).
TokenLifetimeMs == 3600000

\* Token expiries of newly assigned servers, relative to the clock: inside
\* the refresh buffer, on its edge, just outside it.
ExpiryOffsets == {RETRY_BUFFER_MS, REFRESH_BUFFER_MS, REFRESH_BUFFER_MS + 1}

\* A Map with no entries.
EmptyMap == [x \in {} |-> x]

\* Map.set / Map.delete
MapSet(f, k, v) == [x \in (DOMAIN f) \cup {k} |-> IF x = k THEN v ELSE f[x]]
MapDel(f, k) == [x \in (DOMAIN f) \ {k} |-> f[x]]

\* The state of the refresh machinery:
\*   now        Date.now()
\*   servers    the AssignmentManager's assigned servers: id -> token expiry
\*   refresher  ConnectionRefreshController.refresher (0: undefined, else an
\*              index into insts)
\*   insts      every ConnectionRefresher constructed so far:
\*                aborted    abortController.signal.aborted
\*                refreshes  the refreshes map: id -> [timer, expiry]
\*                installed  TRUE once turnOn assigned it to this.refresher
\*   timers     the pending setTimeout timers (neither fired nor cleared):
\*              handle h, owning instance, captured server (id, exp), due time
\*   inits      the suspended activations of ConnectionRefresher.initialize:
\*              run index rn, position pc, refreshConnection calls pending
\*   flights    the refreshConnection calls awaited by refresh(s)
\*   ticks      number of clock jumps so far
\*   disposals  number of dispose() calls made on an instance by an owner
\*              other than the controller
RcNew(servers) ==
  [now |-> 0, servers |-> servers, refresher |-> 0, insts |-> <<>>,
   timers |-> {}, inits |-> <<>>, flights |-> <<>>,
   ticks |-> 0, disposals |-> 0]

\* Math.max
Max2(a, b) == IF a >= b THEN a ELSE b

\* Mutant: the delay is not kept above the minimum.
bufferedRefreshDelay_NoMin(exp, now) == exp - now - REFRESH_BUFFER_MS

\* bufferedRefreshDelay(s)
bufferedRefreshDelay(exp, now) ==
  Max2(exp - now - REFRESH_BUFFER_MS, MinDelayMs)

\* Mutant: the expiry on the edge of the buffer is not refreshed.
shouldRefresh_Strict(exp, now) == exp < now + REFRESH_BUFFER_MS

\* shouldRefresh(s)
shouldRefresh(exp, now) == exp <= now + REFRESH_BUFFER_MS

\* The timers some map entry refers to (pending, fired or cleared).
HeldTimers(c) ==
  UNION {{c.insts[n].refreshes[id].timer : id \in DOMAIN c.insts[n].refreshes} :
           n \in 1..Len(c.insts)}

\* The Timeout object setTimeout hands back: one that is neither pending nor
\* referred to by a map entry (the least such handle).
NewTimer(c) ==
  LET used == {t.h : t \in c.timers} \cup HeldTimers(c)
  IN CHOOSE h \in 1..(Cardinality(used) + 1) :
       h \notin used /\ \A g \in 1..(h - 1) : g \in used

\* scheduleRefresh(s, delayMs): a new timer, and the map entry of s.id is set
\* (an entry already there is overwritten, its timer is not cleared).
scheduleRefresh(c, i, s, delayMs) ==
  LET h == NewTimer(c)
  IN [c EXCEPT
        !.timers = @ \cup {[h |-> h, inst |-> i, id |-> s.id, exp |-> s.exp,
                            due |-> c.now + delayMs]},
        !.insts[i].refreshes = MapSet(@, s.id, [timer |-> h, expiry |-> s.exp])]

\* clear(serverId)
clear(c, i, id) ==
  IF id \in DOMAIN c.insts[i].refreshes
    THEN [c EXCEPT
            !.timers = {t \in @ : t.h # c.insts[i].refreshes[id].timer},
            !.insts[i].refreshes = MapDel(@, id)]
    ELSE c

\* Mutant: dispose() clears the timers but leaves the signal alone.
dispose_NoAbort(c, i) ==
  LET held == {c.insts[i].refreshes[id].timer : id \in DOMAIN c.insts[i].refreshes}
  IN [c EXCEPT !.timers = {t \in @ : t.h \notin held},
               !.insts[i].refreshes = EmptyMap]

\* ConnectionRefresher.dispose(): abort, clear every timer held in the map,
\* empty the map.
dispose(c, i) ==
  LET held == {c.insts[i].refreshes[id].timer : id \in DOMAIN c.insts[i].refreshes}
  IN [c EXCEPT !.insts[i].aborted = TRUE,
               !.timers = {t \in @ : t.h \notin held},
               !.insts[i].refreshes = EmptyMap]

\* handleAssignmentChange: `for (const s of e.added) this.scheduleRefresh(s)`
RECURSIVE AddedLoop(_, _, _)
AddedLoop(c, i, ss) ==
  IF ss = <<>> THEN c
  ELSE AddedLoop(scheduleRefresh(c, i, Head(ss),
                                 bufferedRefreshDelay(Head(ss).exp, c.now)),
                 i, Tail(ss))

\* `r.expiry === s.connectionInformation.tokenExpiry`: two Dates are
\* compared as objects. A changed entry s tells in s.same whether its
\* tokenExpiry is the very object the map recorded for that server.
SameDate(expiry, s) == s.same /\ expiry = s.exp

\* handleAssignmentChange: the loop over e.changed; `returned` tells that the
\* loop left the whole handler with `return`.
RECURSIVE ChangedLoop(_, _, _)
ChangedLoop(c, i, ss) ==
  IF ss = <<>> THEN [c |-> c, returned |-> FALSE]
  ELSE LET s == Head(ss)
           rs == c.insts[i].refreshes
       IN IF s.id \notin DOMAIN rs THEN [c |-> c, returned |-> TRUE]
          ELSE IF SameDate(rs[s.id].expiry, s) THEN [c |-> c, returned |-> TRUE]
          ELSE ChangedLoop(
                 scheduleRefresh(clear(c, i, s.id), i, s,
                                 bufferedRefreshDelay(s.exp, c.now)),
                 i, Tail(ss))

\* handleAssignmentChange: `for (const {server: s} of e.removed) clear(s.id)`
RECURSIVE RemovedLoop(_, _, _)
RemovedLoop(c, i, ids) ==
  IF ids = <<>> THEN c
  ELSE RemovedLoop(clear(c, i, Head(ids)), i, Tail(ids))

\* handleAssignmentChange(e)
handleAssignmentChange(c, i, e) ==
  LET ch == ChangedLoop(AddedLoop(c, i, e.added), i, e.changed)
  IN IF ch.returned THEN ch.c ELSE RemovedLoop(ch.c, i, e.removed)

\* The listener subscribed by the constructor of instance i.
RefresherListener(c, i, e) ==
  IF c.insts[i].aborted THEN c ELSE handleAssignmentChange(c, i, e)

\* onDidAssignmentsChange fires: the listeners of the first n instances run
\* in subscription order (a subscription is never cancelled).
RECURSIVE FireChange(_, _, _)
FireChange(c, e, n) ==
  IF n = 0 THEN c ELSE RefresherListener(FireChange(c, e, n - 1), n, e)

ChangeEvent(added, changed, removed) ==
  [added |-> added, changed |-> changed, removed |-> removed]

\* The servers of a fetch result, in the order the manager returns them.
RECURSIVE ServerList(_, _)
ServerList(servers, ids) ==
  IF ids = {} THEN <<>>
  ELSE LET id == CHOOSE x \in ids : \A y \in ids : x = "s1" \/ y # "s1"
       IN <<[id |-> id, exp |-> servers[id]]>> \o ServerList(servers, ids \ {id})

\* new ConnectionRefresher(assignments, initialServers): a timer for each
\* initial server, then the subscription.
Construct(c, initialServers) ==
  LET i == Len(c.insts) + 1
      c1 == [c EXCEPT !.insts = Append(@, [aborted |-> FALSE,
                                            refreshes |-> EmptyMap,
                                            installed |-> FALSE])]
  IN AddedLoop(c1, i, initialServers)

\* Mutant: turnOn installs the new instance whatever the signal says.
TurnOnInstall_NoCheck(c, i, aborted) ==
  [(IF c.refresher # 0 THEN dispose(c, c.refresher) ELSE c)
     EXCEPT !.refresher = i, !.insts[i].installed = TRUE]

\* turnOn after `await ConnectionRefresher.initialize(...)` handed back
\* instance i.
TurnOnInstall(c, i, aborted) ==
  IF aborted THEN dispose(c, i)
  ELSE [(IF c.refresher # 0 THEN dispose(c, c.refresher) ELSE c)
          EXCEPT !.refresher = i, !.insts[i].installed = TRUE]

\* turnOff(_signal)
turnOff(c) ==
  [(IF c.refresher # 0 THEN dispose(c, c.refresher) ELSE c)
     EXCEPT !.refresher = 0]

\* turnOn(signal) up to its first await: initialize calls getAssignedServers.
turnOn(c, rn) ==
  [c EXCEPT !.inits = Append(@, [rn |-> rn, pc |-> "get1", pending |-> {}])]

\* The runner's worker for the refresh controller: turnOff returns
\* Promise.resolve(), turnOn is suspended in initialize.
RcToggleRun(to) ==
  IF ~SkipHook(lastToggle, to) /\ to = "off"
    THEN NewRun(to, "settled", "ok", TRUE)
    ELSE ToggleRun(to)

\* on() / off() / dispose() of the ConnectionRefreshController.
rcToggle(to) ==
  /\ Events < MaxEvents
  /\ StartRun(RcToggleRun(to))
  /\ lastToggle' = to
  /\ reqs' = Append(reqs, to)
  /\ rc' = IF SkipHook(lastToggle, to) THEN rc
           ELSE IF to = "on" THEN turnOn(rc, Len(runs) + 1)
           ELSE turnOff(rc)
  /\ UNCHANGED <<op, lccVars>>

rcOn == rcToggle("on")
rcOff == rcToggle("off")

\* The continuation of run() for a run of the refresh controller's toggle.
RcRunFinish(i) ==
  /\ i \in 1..Len(runs)
  /\ runs[i].phase = "settled"
  /\ runs' = [runs EXCEPT
                ![i].phase = "done",
                ![i].logged = ShouldLog(runs[i].aborted, runs[i].outcome),
                ![i].promise = RunPromise(runs[i].outcome)]
  /\ curAbort' = ClearIfCurrent(curAbort, i)
  /\ UNCHANGED <<lastToggle, reqs, op, lccVars, rc>>

\* The continuation of run() is a chain of microtasks: once a hook's promise
\* has settled it runs before any timer, any completion of a request and any
\* change event; only synchronous on() / off() calls can come first.
NoMicrotask == \A i \in 1..Len(runs) : runs[i].phase # "settled"

\* initialize (and with it turnOn) of activation k ends: the hook's promise
\* settles ("ok": turnOn returned; "error": a fetch or a refresh rejected;
\* "aborted": initialize threw its own error).
InitEnds(c, k, out) ==
  /\ rc' = [c EXCEPT !.inits = RemoveAt(@, k)]
  /\ runs' = [runs EXCEPT ![rc.inits[k].rn].phase = "settled",
                          ![rc.inits[k].rn].outcome = out]

InitAt(k, pc) ==
  NoMicrotask /\ k \in 1..Len(rc.inits) /\ rc.inits[k].pc = pc

\* `servers = await getAssignedServers(cancel)` settles: the servers to
\* refresh are filtered out and a refreshConnection call is issued for each.
Get1Done(k, res) ==
  /\ InitAt(k, "get1")
  /\ IF res = "ok"
       THEN /\ rc' = [rc EXCEPT
                        !.inits[k].pc = "refreshing",
                        !.inits[k].pending =
                           {id \in DOMAIN rc.servers :
                              shouldRefresh(rc.servers[id], rc.now)}]
            /\ UNCHANGED runs
       ELSE InitEnds(rc, k, "error")
  /\ UNCHANGED <<curAbort, lastToggle, reqs, op, lccVars>>

\* AssignmentManager.refreshConnection(id) succeeds: the server gets a new
\* token expiry (a new Date) and the change is announced.
Refreshed(c, id) ==
  LET exp == c.now + TokenLifetimeMs
      c1 == [c EXCEPT !.servers[id] = exp]
  IN FireChange(c1, ChangeEvent(<<>>, <<[id |-> id, exp |-> exp,
                                          same |-> FALSE]>>, <<>>),
                Len(c1.insts))

\* One of the refreshConnection calls issued by initialize settles. A
\* rejection rejects Promise.all and with it initialize.
InitRefreshDone(k, id, res) ==
  /\ NoMicrotask
  /\ k \in 1..Len(rc.inits)
  /\ id \in rc.inits[k].pending
  /\ IF res = "ok"
       THEN /\ id \in DOMAIN rc.servers
            /\ rc' = [Refreshed(rc, id) EXCEPT !.inits[k].pending = @ \ {id}]
            /\ UNCHANGED runs
       ELSE InitEnds(rc, k, "error")
  /\ UNCHANGED <<curAbort, lastToggle, reqs, op, lccVars>>

\* `await Promise.all(refreshing)`
AllRefreshed(pending) == pending = {}

\* Mutant: initialize never looks at the signal.
CancelAborted_Never(aborted) == FALSE

\* `cancel?.aborted`
CancelAborted(aborted) == aborted

\* After Promise.all: throw Error("Connection refresher initialization
\* aborted") if the signal is aborted, else fetch again.
AfterRefreshes(k) ==
  /\ InitAt(k, "refreshing")
  /\ AllRefreshed(rc.inits[k].pending)
  /\ IF CancelAborted(runs[rc.inits[k].rn].aborted)
       THEN InitEnds(rc, k, "aborted")
       ELSE /\ rc' = [rc EXCEPT !.inits[k].pc = "get2"]
            /\ UNCHANGED runs
  /\ UNCHANGED <<curAbort, lastToggle, reqs, op, lccVars>>

\* `refreshedServers = await getAssignedServers(cancel)` settles: the
\* instance is constructed and returned, and turnOn resumes with it.
Get2Done(k, res) ==
  /\ InitAt(k, "get2")
  /\ IF res = "ok"
       THEN InitEnds(
              TurnOnInstall(
                Construct(rc, ServerList(rc.servers, DOMAIN rc.servers)),
                Len(rc.insts) + 1,
                runs[rc.inits[k].rn].aborted),
              k, "ok")
       ELSE InitEnds(rc, k, "error")
  /\ UNCHANGED <<curAbort, lastToggle, reqs, op, lccVars>>

\* A server is assigned: {added: [s]}.
ServerAdded(id, offset) ==
  /\ NoMicrotask
  /\ Events < MaxEvents
  /\ id \notin DOMAIN rc.servers
  /\ notifs' = notifs + 1
  /\ LET exp == rc.now + offset
         c1 == [rc EXCEPT !.servers = MapSet(@, id, exp)]
     IN rc' = FireChange(c1, ChangeEvent(<<[id |-> id, exp |-> exp]>>, <<>>, <<>>),
                         Len(c1.insts))
  /\ UNCHANGED <<runs, curAbort, lastToggle, reqs, op, lcc, disposable, assigned>>

\* A server is unassigned: {removed: [s]}.
ServerRemoved(id) ==
  /\ NoMicrotask
  /\ Events < MaxEvents
  /\ id \in DOMAIN rc.servers
  /\ notifs' = notifs + 1
  /\ LET c1 == [rc EXCEPT !.servers = MapDel(@, id)]
     IN rc' = FireChange(c1, ChangeEvent(<<>>, <<>>, <<id>>), Len(c1.insts))
  /\ UNCHANGED <<runs, curAbort, lastToggle, reqs, op, lcc, disposable, assigned>>

\* Time passes until the next pending timer is due.
Tick ==
  /\ NoMicrotask
  /\ Events < MaxEvents
  /\ rc.timers # {}
  /\ \A t \in rc.timers : t.due > rc.now
  /\ rc' = [rc EXCEPT
              !.now = CHOOSE d \in {t.due : t \in rc.timers} :
                        \A t \in rc.timers : d <= t.due,
              !.ticks = @ + 1]
  /\ UNCHANGED <<runs, curAbort, lastToggle, reqs, op, lccVars>>

\* refresh(s) up to its await: nothing for an untracked server, else the
\* refreshConnection call is issued.
refresh(c, i, s) ==
  IF s.id \notin DOMAIN c.insts[i].refreshes THEN c
  ELSE [c EXCEPT !.flights = Append(@, [inst |-> i, id |-> s.id, exp |-> s.exp])]

\* The callback of timer h runs.
TimerFire(h) ==
  /\ NoMicrotask
  /\ \E t \in rc.timers :
       /\ t.h = h
       /\ t.due <= rc.now
       /\ LET c1 == [rc EXCEPT !.timers = @ \ {t}]
          IN rc' = IF c1.insts[t.inst].aborted THEN c1
                   ELSE refresh(c1, t.inst, [id |-> t.id, exp |-> t.exp])
  /\ UNCHANGED <<runs, curAbort, lastToggle, reqs, op, lccVars>>

\* Mutant: the retry waits for the buffered refresh delay.
maybeRetry_DefaultDelay(c, i, s) ==
  IF c.insts[i].aborted THEN c
  ELSE IF ~(s.exp - c.now > RETRY_BUFFER_MS) THEN clear(c, i, s.id)
  ELSE scheduleRefresh(c, i, s, bufferedRefreshDelay(s.exp, c.now))

\* Mutant: a retry is still scheduled when exactly RETRY_BUFFER_MS remains.
maybeRetry_AtBuffer(c, i, s) ==
  IF c.insts[i].aborted THEN c
  ELSE IF ~(s.exp - c.now >= RETRY_BUFFER_MS) THEN clear(c, i, s.id)
  ELSE scheduleRefresh(c, i, s, RETRY_BUFFER_MS)

\* Mutant: a retry is scheduled however little time remains.
maybeRetry_Always(c, i, s) ==
  IF c.insts[i].aborted THEN c
  ELSE scheduleRefresh(c, i, s, RETRY_BUFFER_MS)

\* maybeRetry(s, pastIssue)
maybeRetry(c, i, s) ==
  IF c.insts[i].aborted THEN c
  ELSE IF ~(s.exp - c.now > RETRY_BUFFER_MS) THEN clear(c, i, s.id)
  ELSE scheduleRefresh(c, i, s, RETRY_BUFFER_MS)

\* Mutant: NotFoundError is treated like any other error.
RefreshFailed_RetryNotFound(c, i, s, res) ==
  IF c.insts[i].aborted THEN c
  ELSE maybeRetry(c, i, s)

\* The catch clause of refresh(s).
RefreshFailed(c, i, s, res) ==
  IF c.insts[i].aborted THEN c
  ELSE IF res = "notfound" THEN clear(c, i, s.id)
  ELSE maybeRetry(c, i, s)

\* Mutant: refresh(s) schedules the next refresh of s itself once the call
\* has resolved.
RefreshSucceeded_Reschedules(c, i, s) ==
  IF c.insts[i].aborted THEN c
  ELSE scheduleRefresh(c, i, s, bufferedRefreshDelay(s.exp, c.now))

\* refresh(s) after its awaited call has resolved: a trace log, nothing else.
RefreshSucceeded(c, i, s) == c

\* The refreshConnection call awaited by refresh(s) settles. When it
\* resolves, the manager has renewed the token and fires its change event
\* either before refresh(s) resumes or after.
RefreshDone(j, res) ==
  /\ NoMicrotask
  /\ j \in 1..Len(rc.flights)
  /\ LET f == rc.flights[j]
         s == [id |-> f.id, exp |-> f.exp]
         c1 == [rc EXCEPT !.flights = RemoveAt(@, j)]
     IN IF res = "ok"
          THEN /\ f.id \in DOMAIN rc.servers
               /\ \/ rc' = RefreshSucceeded(Refreshed(c1, f.id), f.inst, s)
                  \/ rc' = Refreshed(RefreshSucceeded(c1, f.inst, s), f.id)
          ELSE rc' = RefreshFailed(c1, f.inst, s, res)
  /\ UNCHANGED <<runs, curAbort, lastToggle, reqs, op, lccVars>>

\* What one assignment change does to a server: nothing, assign it,
\* unassign it, change its label and keep its tokenExpiry object ("touch"),
\* change its label and hand out a re-created Date of the same time
\* ("copy"), or give it a new token ("renew").
ChangeOps(c, id) ==
  IF id \in DOMAIN c.servers
    THEN {"none", "remove", "touch", "copy", "renew"}
    ELSE {"none", "add"}

\* The assigned servers after the change.
ChangedServers(c, ops, offset) ==
  [id \in {x \in ServerIds : ops[x] # "remove" /\
                             (x \in DOMAIN c.servers \/ ops[x] = "add")} |->
     CASE ops[id] = "add" -> c.now + offset
       [] ops[id] = "renew" -> c.now + TokenLifetimeMs
       [] OTHER -> c.servers[id]]

Reverse(sq) == [n \in 1..Len(sq) |-> sq[Len(sq) + 1 - n]]

\* The changed entries of the event.
ChangedList(ss, ops) ==
  [n \in 1..Len(ss) |->
     [id |-> ss[n].id, exp |-> ss[n].exp, same |-> ops[ss[n].id] = "touch"]]

\* The ids of a list of servers.
IdsOf(ss) == [n \in 1..Len(ss) |-> ss[n].id]

\* The AssignmentChangeEvent announcing the change.
ChangeEventOf(c, ops, offset, rev) ==
  LET after == ChangedServers(c, ops, offset)
      changed == ChangedList(
                   ServerList(after, {id \in ServerIds :
                                        ops[id] \in {"touch", "copy", "renew"}}),
                   ops)
  IN ChangeEvent(
       ServerList(after, {id \in ServerIds : ops[id] = "add"}),
       IF rev THEN Reverse(changed) ELSE changed,
       IdsOf(ServerList(c.servers, {id \in ServerIds : ops[id] = "remove"})))

\* The AssignmentManager changes its assignments and fires one
\* onDidAssignmentsChange event for all of it.
AssignmentsChange(ops, offset, rev) ==
  /\ NoMicrotask
  /\ Events < MaxEvents
  /\ \A id \in ServerIds : ops[id] \in ChangeOps(rc, id)
  /\ \E id \in ServerIds : ops[id] # "none"
  /\ (\A id \in ServerIds : ops[id] # "add") => offset = REFRESH_BUFFER_MS + 1000
  /\ rev => \A id \in ServerIds : ops[id] \in {"touch", "copy", "renew"}
  /\ notifs' = notifs + 1
  /\ LET c1 == [rc EXCEPT !.servers = ChangedServers(rc, ops, offset)]
     IN rc' = FireChange(c1, ChangeEventOf(rc, ops, offset, rev), Len(c1.insts))
  /\ UNCHANGED <<runs, curAbort, lastToggle, reqs, op, lcc, disposable, assigned>>

\* dispose() is called on instance i by its owner.
RefresherDispose(i) ==
  /\ NoMicrotask
  /\ Events < MaxEvents
  /\ i \in 1..Len(rc.insts)
  /\ rc' = [dispose(rc, i) EXCEPT !.disposals = @ + 1]
  /\ UNCHANGED <<runs, curAbort, lastToggle, reqs, op, lccVars>>

(* ---------------------------------------------------------------------- *)
(* Specifications                                                          *)
(* ---------------------------------------------------------------------- *)
Init ==
  /\ runs = <<>>
  /\ curAbort = 0
  /\ lastToggle = "none"
  /\ reqs = <<>>
  /\ op = <<"init", 0>>
  /\ lcc = LccNew
  /\ disposable = 0
  /\ assigned = <<>>
  /\ notifs = 0
  /\ rc = RcNew(EmptyMap)

\* A LatestCancelable driven by run(), cancel() and worker completions.
NextLC ==
  \/ run
  \/ cancel
  \/ cancelThenRun
  \/ \E i \in 1..MaxRuns, out \in Outcomes : WorkerSettle(i, out)
  \/ \E i \in 1..MaxRuns : RunFinish(i)

SpecLC == Init /\ [][NextLC]_vars

\* An AsyncToggle driven by on(), off() and hook completions.
NextToggle ==
  \/ on
  \/ off
  \/ \E i \in 1..MaxRuns, out \in Outcomes : WorkerSettle(i, out)
  \/ \E i \in 1..MaxRuns : RunFinish(i)

SpecToggle == Init /\ [][NextToggle]_vars

\* The controller is constructed while any servers may already be assigned.
InitLcc ==
  /\ runs = <<>>
  /\ curAbort = 0
  /\ lastToggle = "none"
  /\ reqs = <<>>
  /\ op = <<"init", 0>>
  /\ lcc = LccNew
  /\ disposable = 0
  /\ assigned \in {<<>>, <<"A">>, <<"B">>, <<"A", "B">>, <<"B", "A">>}
  /\ notifs = 0
  /\ rc = RcNew(EmptyMap)

\* Suspended activations never outnumber the requests: one per hook or
\* listener call, one per unawaited tearDownClient call of a Disposable.
MaxTasks == 2 * MaxEvents

\* A LanguageClientController driven by on(), off(), assignment changes and
\* the completions of latestServer, client.dispose and client.start.
NextLcc ==
  \/ lccOn
  \/ lccOff
  \/ \E ep \in Endpoints : AssignmentAdded(ep)
  \/ \E ep \in Endpoints : AssignmentRemoved(ep)
  \/ AssignmentChanged
  \/ \E k \in 1..MaxTasks, res \in {"ok", "error"} : FetchDone(k, res)
  \/ \E k \in 1..MaxTasks : DisposeDone(k)
  \/ \E k \in 1..MaxTasks : TearDownDone(k)
  \/ \E k \in 1..MaxTasks, res \in {"ok", "error"} : StartDone(k, res)
  \/ \E i \in 1..MaxEvents : LccRunFinish(i)

SpecLcc == InitLcc /\ [][NextLcc]_vars

\* The same controller when every latestServer and client.start call
\* succeeds. Every pending promise settles and the event loop then runs its
\* continuation, so a completion that stays possible is eventually taken.
Completion ==
  \/ \E k \in 1..MaxTasks : FetchDone(k, "ok")
  \/ \E k \in 1..MaxTasks : DisposeDone(k)
  \/ \E k \in 1..MaxTasks : TearDownDone(k)
  \/ \E k \in 1..MaxTasks : StartDone(k, "ok")
  \/ \E i \in 1..MaxEvents : LccRunFinish(i)

NextLccLive ==
  \/ lccOn
  \/ lccOff
  \/ \E ep \in Endpoints : AssignmentAdded(ep)
  \/ \E ep \in Endpoints : AssignmentRemoved(ep)
  \/ AssignmentChanged
  \/ Completion

SpecLccLive == InitLcc /\ [][NextLccLive]_vars /\ WF_vars(Completion)

\* The refresh controller is constructed while any servers may already be
\* assigned (the ids are interchangeable: one server is s1).
InitRefresh ==
  /\ runs = <<>>
  /\ curAbort = 0
  /\ lastToggle = "none"
  /\ reqs = <<>>
  /\ op = <<"init", 0>>
  /\ lcc = LccNew
  /\ disposable = 0
  /\ assigned = <<>>
  /\ notifs = 0
  /\ \E ids \in {{}, {"s1"}, ServerIds} :
       \E servers \in [ids -> ExpiryOffsets] : rc = RcNew(servers)

\* Timer handles never outnumber the scheduleRefresh calls.
MaxTimers == 4 * MaxEvents

\* A ConnectionRefreshController driven by on(), off(), assignment changes,
\* the clock and the completions of getAssignedServers and refreshConnection.
NextRefresh ==
  \/ rcOn
  \/ rcOff
  \/ \E id \in ServerIds, offset \in ExpiryOffsets : ServerAdded(id, offset)
  \/ \E id \in ServerIds : ServerRemoved(id)
  \/ \E k \in 1..MaxEvents, res \in {"ok", "error"} : Get1Done(k, res)
  \/ \E k \in 1..MaxEvents, id \in ServerIds, res \in {"ok", "error"} :
       InitRefreshDone(k, id, res)
  \/ \E k \in 1..MaxEvents : AfterRefreshes(k)
  \/ \E k \in 1..MaxEvents, res \in {"ok", "error"} : Get2Done(k, res)
  \/ Tick
  \/ \E h \in 1..MaxTimers : TimerFire(h)
  \/ \E j \in 1..MaxTimers, res \in {"ok", "notfound", "error"} :
       RefreshDone(j, res)
  \/ \E i \in 1..MaxEvents : RcRunFinish(i)

SpecRefresh == InitRefresh /\ [][NextRefresh]_vars

\* Token expiries of newly assigned servers, relative to the clock: inside
\* the refresh buffer, such that one retry after the minimum delay leaves
\* exactly RETRY_BUFFER_MS; well outside the refresh buffer.
AddOffsets == {2 * RETRY_BUFFER_MS + MinDelayMs, REFRESH_BUFFER_MS + 1000}

\* Token expiries of the servers a lone ConnectionRefresher is constructed
\* with: those, or already past.
SchedOffsets == {-1} \cup AddOffsets

\* A ConnectionRefresher constructed on its own (initialize has returned it
\* to a caller other than the controller) with the servers assigned then.
InitSched ==
  /\ runs = <<>>
  /\ curAbort = 0
  /\ lastToggle = "none"
  /\ reqs = <<>>
  /\ op = <<"init", 0>>
  /\ lcc = LccNew
  /\ disposable = 0
  /\ assigned = <<>>
  /\ notifs = 0
  /\ \E ids \in {{}, {"s1"}, ServerIds} :
       \E servers \in [ids -> SchedOffsets] :
         rc = Construct(RcNew(servers), ServerList(servers, ids))

\* The changes one event may announce.
ChangeOpChoices ==
  [ServerIds -> {"none", "add", "remove", "touch", "copy", "renew"}]

\* That ConnectionRefresher driven by assignment changes, the clock, its
\* timers, the completions of refreshConnection and dispose().
NextSched ==
  \/ \E ops \in ChangeOpChoices, offset \in AddOffsets, rev \in BOOLEAN :
       AssignmentsChange(ops, offset, rev)
  \/ Tick
  \/ \E h \in 1..MaxTimers : TimerFire(h)
  \/ \E j \in 1..MaxTimers, res \in {"ok", "notfound", "error"} :
       RefreshDone(j, res)
  \/ RefresherDispose(1)

SpecSched == InitSched /\ [][NextSched]_vars

\* Token expiries of the servers assigned when a turnOn completed:
\* initialize has refreshed every server inside the refresh buffer, so each
\* expires later than that.
InstalledOffsets == {REFRESH_BUFFER_MS + 1000, TokenLifetimeMs}

\* A ConnectionRefreshController whose first on() has run to completion:
\* lastToggle is "on", the runner holds no controller, and the refresher
\* that initialize constructed for the assigned servers is installed.
InitInstalled ==
  /\ runs = <<>>
  /\ curAbort = 0
  /\ lastToggle = "on"
  /\ reqs = <<>>
  /\ op = <<"init", 0>>
  /\ lcc = LccNew
  /\ disposable = 0
  /\ assigned = <<>>
  /\ notifs = 0
  /\ \E ids \in {{}, {"s1"}, ServerIds} :
       \E servers \in [ids -> InstalledOffsets] :
         rc = TurnOnInstall(
                Construct(RcNew(servers), ServerList(servers, ids)), 1, FALSE)

\* That controller driven by further on() / off() requests, assignment
\* changes of any shape, the clock and the completions of its calls.
NextInstalled ==
  \/ rcOn
  \/ rcOff
  \/ \E ops \in ChangeOpChoices, offset \in AddOffsets, rev \in BOOLEAN :
       AssignmentsChange(ops, offset, rev)
  \/ \E k \in 1..MaxEvents, res \in {"ok", "error"} : Get1Done(k, res)
  \/ \E k \in 1..MaxEvents, id \in ServerIds, res \in {"ok", "error"} :
       InitRefreshDone(k, id, res)
  \/ \E k \in 1..MaxEvents : AfterRefreshes(k)
  \/ \E k \in 1..MaxEvents, res \in {"ok", "error"} : Get2Done(k, res)
  \/ Tick
  \/ \E h \in 1..MaxTimers : TimerFire(h)
  \/ \E j \in 1..MaxTimers, res \in {"ok", "notfound", "error"} :
       RefreshDone(j, res)
  \/ \E i \in 1..MaxEvents : RcRunFinish(i)

SpecInstalled == InitInstalled /\ [][NextInstalled]_vars

\* Token expiries for which the retries of a refresh that keeps failing end
\* within the clock jumps explored: already past, or such that the second
\* or third failure finds exactly RETRY_BUFFER_MS remaining.
RetryOffsets ==
  {-1, 2 * RETRY_BUFFER_MS + MinDelayMs, 3 * RETRY_BUFFER_MS + MinDelayMs}

InitRetry ==
  /\ runs = <<>>
  /\ curAbort = 0
  /\ lastToggle = "none"
  /\ reqs = <<>>
  /\ op = <<"init", 0>>
  /\ lcc = LccNew
  /\ disposable = 0
  /\ assigned = <<>>
  /\ notifs = 0
  /\ \E ids \in {{}, {"s1"}, ServerIds} :
       \E servers \in [ids -> RetryOffsets] :
         rc = Construct(RcNew(servers), ServerList(servers, ids))

\* Every refreshConnection call rejects with a plain error.
RefreshFails == \E j \in 1..MaxTimers : RefreshDone(j, "error")

\* A timer that is due runs its callback.
TimerFires == \E h \in 1..MaxTimers : TimerFire(h)

\* A lone ConnectionRefresher whose refreshConnection calls all fail while
\* the assignments stay as they are. The clock advances, a due timer's
\* callback is run by the event loop and a pending call settles, so each of
\* these is eventually taken while it stays possible.
NextRetry ==
  \/ Tick
  \/ TimerFires
  \/ RefreshFails

SpecRetry ==
  /\ InitRetry /\ [][NextRetry]_vars
  /\ WF_vars(Tick) /\ WF_vars(TimerFires) /\ WF_vars(RefreshFails)

(* ---------------------------------------------------------------------- *)
(* Observations used by the properties                                     *)
(* ---------------------------------------------------------------------- *)
Idx == 1..Len(runs)

\* Run i invoked a hook whose promise is still pending.
HookInFlightIn(rs, i) == rs[i].hook /\ rs[i].phase = "working"
HookInFlight(i) == HookInFlightIn(runs, i)

\* Number of invocations of turnOn (d = "on") or turnOff (d = "off").
HookCalls(d) == Cardinality({i \in Idx : runs[i].hook /\ runs[i].arg = d})

\* Number of maximal blocks of consecutive requests for direction d.
Blocks(d) ==
  Cardinality({k \in 1..Len(reqs) :
                 reqs[k] = d /\ (k = 1 \/ reqs[k - 1] # d)})

Opposite(d) == IF d = "on" THEN "off" ELSE "on"

AllDone == \A i \in Idx : runs[i].phase = "done"

\* The step just taken started a new run (run(), cancel(); run(), on(), off()).
StartedRun == Len(runs') = Len(runs) + 1

\* Every run that existed before the step is the same worker invocation after
\* it: nothing but its abort flag may differ.
OldRunsKept ==
  \A i \in Idx :
    /\ i \in 1..Len(runs')
    /\ [runs'[i] EXCEPT !.aborted = FALSE] = [runs[i] EXCEPT !.aborted = FALSE]

(* ---------------------------------------------------------------------- *)
(* Properties of AsyncToggle (SpecToggle)                                  *)
(* ---------------------------------------------------------------------- *)
\* A request for direction d arrives while the most recent request was for
\* the opposite direction and a hook of that opposite direction is pending:
\* after the step every such pending hook has its signal aborted and the new
\* run has invoked the hook of direction d, exactly one more invocation.
OppositeRequestStep(d) ==
  (/\ op'[1] = d
   /\ lastToggle = Opposite(d)
   /\ \E i \in Idx : HookInFlight(i) /\ runs[i].arg = Opposite(d))
  => /\ \A i \in Idx :
          HookInFlight(i) /\ runs[i].arg = Opposite(d) => runs'[i].aborted
     /\ HookInFlightIn(runs', Len(runs')) /\ runs'[Len(runs')].arg = d
     /\ HookCalls(d)' = HookCalls(d) + 1

\* C1: off() requested while the turnOn hook of the preceding on() is pending
\* aborts that hook's signal and starts turnOff; after on(); off(), once every
\* run has finished, turnOff has been invoked exactly once (and symmetrically
\* with the directions exchanged).
C1_OppositeCancelsAndRunsOnce ==
  /\ [][\A d \in ToggleDirection : OppositeRequestStep(d)]_vars
  /\ [](\A d \in ToggleDirection :
          (reqs = <<Opposite(d), d>> /\ AllDone)
            => HookCalls(d) = 1 /\ HookCalls(Opposite(d)) = 1)

\* on(); off() with the turnOn hook pending at off(): its signal is aborted,
\* both hooks have settled and turnOff ran once.
C1_Witness ==
  /\ reqs = <<"on", "off">>
  /\ AllDone
  /\ runs[1].hook /\ runs[1].aborted
  /\ runs[2].hook /\ HookCalls("off") = 1

\* C2: whatever the interleaving of requests and hook completions, each
\* maximal block of same-direction requests has invoked its hook exactly
\* once.
C2_OneHookPerBlock ==
  \A d \in ToggleDirection : HookCalls(d) = Blocks(d)

\* A repeated request that found the first hook still pending, and a repeated
\* request that found the first hook's run finished.
C2_Witness ==
  /\ \E k \in Idx : /\ k + 1 \in Idx /\ reqs[k] = reqs[k + 1]
                    /\ runs[k].hook /\ runs[k].aborted
                    /\ ~runs[k + 1].hook
  /\ \E k \in Idx : /\ k + 1 \in Idx /\ reqs[k] = reqs[k + 1]
                    /\ runs[k].hook /\ ~runs[k].aborted
                    /\ runs[k].phase = "done"
                    /\ ~runs[k + 1].hook

\* A request for direction d arrives while the transition to d is in flight:
\* lastToggle is d and the current run's hook (direction d) is pending with
\* its signal not aborted.
SameDirectionDuringFlight(d) ==
  /\ op'[1] = d
  /\ lastToggle = d
  /\ curAbort # 0
  /\ HookInFlight(curAbort)
  /\ runs[curAbort].arg = d
  /\ ~runs[curAbort].aborted

\* C3 as stated: the repeated request starts no second hook and does not
\* abort the signal of the hook in flight.
C3_SameDirectionLeavesHookUndisturbed ==
  [][\A d \in ToggleDirection :
       SameDirectionDuringFlight(d)
         => /\ HookCalls(d)' = HookCalls(d)
            /\ ~runs'[curAbort].aborted]_vars

\* C3 amended: the repeated request starts no second hook, but it does abort
\* the signal of the hook in flight (run() aborts the current controller
\* before the worker compares directions); the pending hook keeps running.
C3_SameDirectionNoSecondHookButAborts ==
  [][\A d \in ToggleDirection :
       SameDirectionDuringFlight(d)
         => /\ HookCalls(d)' = HookCalls(d)
            /\ HookCalls(Opposite(d))' = HookCalls(Opposite(d))
            /\ ~runs'[Len(runs')].hook
            /\ runs'[curAbort].aborted
            /\ HookInFlightIn(runs', curAbort)]_vars

\* The state right after on() repeated during a pending turnOn (or off()
\* during a pending turnOff).
C3_Witness ==
  /\ op[1] \in ToggleDirection
  /\ Len(runs) >= 2
  /\ runs[Len(runs)].arg = op[1] /\ ~runs[Len(runs)].hook
  /\ runs[Len(runs) - 1].arg = op[1]
  /\ HookInFlight(Len(runs) - 1)
  /\ runs[Len(runs) - 1].aborted

(* ---------------------------------------------------------------------- *)
(* Properties of LatestCancelable (SpecLC)                                 *)
(* ---------------------------------------------------------------------- *)
\* C4: isRunning() is TRUE exactly when the most recently started run has not
\* finished and its signal is not aborted.
C4_IsRunningIffLatestLive ==
  isRunning <=> /\ Len(runs) > 0
                /\ runs[Len(runs)].phase # "done"
                /\ ~runs[Len(runs)].aborted

\* A superseded run has finished while the newer run is still live.
C4_Witness ==
  /\ Len(runs) >= 2
  /\ runs[1].phase = "done" /\ runs[1].aborted
  /\ runs[Len(runs)].phase = "working"
  /\ isRunning

\* C5: the finish of a run that is not the most recent one leaves curAbort
\* (hence isRunning()) as it was; isRunning() turns FALSE only by cancel() or
\* by the finish of the current run.
C5_StaleFinishKeepsCurrent ==
  /\ [][(op'[1] = "finish" /\ op'[2] # Len(runs))
          => curAbort' = curAbort /\ isRunning' = isRunning]_vars
  /\ [][(isRunning /\ ~isRunning')
          => \/ op'[1] = "cancel"
             \/ op' = <<"finish", curAbort>>]_vars

\* A superseded run finished last, in each way, under a live newer run.
C5_Witness ==
  /\ op[1] = "finish" /\ op[2] < Len(runs)
  /\ runs[op[2]].aborted
  /\ isRunning
  /\ curAbort = Len(runs)
  /\ \E i \in Idx : runs[i].phase = "done" /\ runs[i].outcome = "error"

\* Runs that have not finished and whose signal is not aborted.
LiveRuns == {i \in Idx : runs[i].phase # "done" /\ ~runs[i].aborted}

\* C6: at most one unfinished run holds a signal that is not aborted, and a
\* step that starts a run leaves every older unfinished run aborted.
C6_AtMostOneLiveToken ==
  /\ [](Cardinality(LiveRuns) <= 1)
  /\ [][StartedRun
          => \A i \in Idx : runs[i].phase # "done" => runs'[i].aborted]_vars

\* Two workers are pending at once: the superseded one aborted, the newer not.
C6_Witness ==
  /\ Len(runs) >= 2
  /\ runs[1].phase = "working" /\ runs[1].aborted
  /\ runs[2].phase = "working" /\ ~runs[2].aborted

C8_CancelFrame ==
  [][op'[1] = "cancel"
       => /\ curAbort' = curAbort
          /\ Len(runs') = Len(runs)
          /\ \A i \in Idx : i # curAbort => runs'[i] = runs[i]
          /\ curAbort # 0 => runs'[curAbort] = [runs[curAbort] EXCEPT !.aborted = TRUE]
          /\ curAbort = 0 => runs' = runs
          /\ ~isRunning']_vars

\* cancel() has just aborted the current run while an older worker is still
\* pending.
C8_Witness ==
  /\ op[1] = "cancel" /\ op[2] >= 2
  /\ curAbort = op[2]
  /\ runs[curAbort].aborted /\ runs[curAbort].phase = "working"
  /\ runs[1].phase = "working"

\* C9: the promise of run() is never rejected and is fulfilled once the run
\* has finished; log.error was called for a run exactly when its worker failed
\* with an error other than AbortError while its signal was not aborted.
C9_ErrorsSwallowedAndLogged ==
  \A i \in Idx :
    /\ runs[i].promise # "rejected"
    /\ runs[i].phase = "done" => runs[i].promise = "fulfilled"
    /\ runs[i].logged <=> /\ runs[i].phase = "done"
                          /\ runs[i].outcome = "error"
                          /\ ~runs[i].aborted

\* Finished runs of every failure kind: a logged error, an error under an
\* aborted signal, and an AbortError under a signal that was not aborted.
C9_Witness ==
  /\ AllDone
  /\ \E i \in Idx : runs[i].outcome = "error" /\ ~runs[i].aborted /\ runs[i].logged
  /\ \E i \in Idx : runs[i].outcome = "error" /\ runs[i].aborted /\ ~runs[i].logged
  /\ \E i \in Idx : runs[i].outcome = "abortError" /\ ~runs[i].aborted /\ ~runs[i].logged

(* ---------------------------------------------------------------------- *)
(* Properties of LanguageClientController (SpecLcc)                        *)
(* ---------------------------------------------------------------------- *)
\* Connections opened and not yet closed. A connection is opened when its
\* ColabLanguageClient is constructed (the constructor creates the socket);
\* it is counted as closed from the moment dispose() is first called on it,
\* which is the reading most favourable to the controller.
OpenConnections ==
  {i \in 1..Len(lcc.clients) : lcc.clients[i].disposals = 0}

\* C10: in every reachable state of the controller at most one connection has
\* been opened and not yet closed.
C10_AtMostOneOpenConnection ==
  Cardinality(OpenConnections) <= 1

\* No activation of the controller is suspended and every toggle run has
\* settled: all in-flight work is over.
Quiescent ==
  /\ lcc.tasks = <<>>
  /\ \A i \in Idx : runs[i].phase # "working"

\* The history is exactly: a was the only server assigned, on() was requested,
\* the initial pass constructed the client for a, then one notification added
\* b, which latestServer now returns. (After the notification a client for a
\* can no longer be constructed: the listener aborted the initial pass.)
ConnectedThenAdded(a, b) ==
  /\ a # b
  /\ reqs = <<"on">>
  /\ notifs = 1
  /\ assigned = <<a, b>>
  /\ Len(lcc.clients) >= 1
  /\ lcc.clients[1].endpoint = a

\* dispose() was called exactly once on a's client, and a client for b, if
\* constructed, is the only other one, is held, and was constructed after
\* dispose() of a's client had returned.
TornDownThenOpenedOnce(a, b) ==
  /\ lcc.clients[1].disposals = 1
  /\ Len(lcc.clients) <= 2
  /\ Len(lcc.clients) = 2
       => /\ lcc.clients[2] = NewClient(b)
          /\ lcc.clients[1].closed
          /\ lcc.client = 2
  /\ Quiescent => Len(lcc.clients) = 2

\* C11: with a assigned and connected, a notification adding b (latestServer
\* now returning b) makes the controller dispose a's client exactly once and
\* construct b's client exactly once, the disposal having returned before the
\* construction; once all in-flight work has settled both have happened.
C11_ReconnectsToNewerOnce ==
  \A a, b \in Endpoints :
    ConnectedThenAdded(a, b) => TornDownThenOpenedOnce(a, b)

\* The reaction is over: A's client is closed, B's client is held and started.
C11_Witness ==
  /\ ConnectedThenAdded("A", "B")
  /\ Quiescent
  /\ lcc.clients = <<[endpoint |-> "A", disposals |-> 1, closed |-> TRUE,
                      lsDisposals |-> 1],
                     NewClient("B")>>
  /\ lcc.client = 2
  /\ lcc.latestServerEndpoint = "B"

\* The client the reconciliation of task k found held when it began: the
\* listener captured it in its tearDownClient call; the initial pass does
\* nothing before its fetch returns.
HeldAtStart(k) ==
  IF lcc.tasks[k].kind = "listener" THEN lcc.tasks[k].cl ELSE lcc.client

\* The reconciliation of task k has itself called dispose() on the client it
\* found held.
TornDownBy(k) == lcc.tasks[k].kind = "listener" /\ lcc.tasks[k].cl # 0

HeldEndpoint ==
  IF lcc.client = 0 THEN "none" ELSE lcc.clients[lcc.client].endpoint

\* C13: a notification that adds no server and removes no server whose
\* endpoint is the held connection's endpoint (none, when no connection is
\* held) leaves the controller unchanged: no abort, no dispose() call, no
\* latestServer call and no new client.
C13_UnrelatedNotificationIgnored ==
  [][/\ AssignmentChanged => lcc' = lcc
     /\ \A ep \in Endpoints :
          (AssignmentRemoved(ep) /\ ep # HeldEndpoint) => lcc' = lcc]_vars

\* The history is exactly: on() was requested with one server assigned, and
\* one notification removed it while the listener found its endpoint in
\* latestServerEndpoint, so the listener acted (only the listener can have
\* aborted the first AbortController, and latestServerEndpoint was set by the
\* initial pass constructing the client). No server remains.
ConnectedThenRemoved ==
  /\ reqs = <<"on">>
  /\ notifs = 1
  /\ assigned = <<>>
  /\ lcc.acs[1]

\* C14: when the reaction is triggered by the removal of the connected server
\* and no server remains, dispose() is called once on the held client, no
\* other client is ever constructed (changed-only notifications included), and
\* once in-flight work has settled the controller holds no client.
C14_RemovalOfLastServerDisconnects ==
  ConnectedThenRemoved
    => /\ Len(lcc.clients) = 1
       /\ lcc.clients[1].disposals = 1
       /\ OpenConnections = {}
       /\ Quiescent => /\ lcc.client = 0
                       /\ lcc.clients[1].closed
                       /\ lcc.latestServerEndpoint = ""

\* The reaction to the removal is over: the client is closed and none is held.
C14_Witness ==
  /\ ConnectedThenRemoved
  /\ Quiescent
  /\ Len(lcc.acs) = 2
  /\ lcc.client = 0
  /\ lcc.clients = <<[endpoint |-> "A", disposals |-> 1, closed |-> TRUE,
                      lsDisposals |-> 1]>>

\* C15: after off(), once every suspended activation and every hook has
\* settled, the listener is unsubscribed and no connection is open (so none
\* can be opened before the next on()), wherever the earlier reactions were
\* suspended when off() arrived.
C15_OffLeavesNoConnection ==
  (lastToggle = "off" /\ Quiescent)
    => /\ lcc.listeners = {}
       /\ OpenConnections = {}

\* The held client is open and points at the server latestServer returns.
ConnectedToLatest ==
  /\ lcc.client # 0
  /\ lcc.clients[lcc.client].endpoint = Latest(assigned)
  /\ lcc.clients[lcc.client].disposals = 0

\* C16: when latestServer and start succeed, a controller turned on once (and
\* never toggled again) eventually holds, and keeps, an open connection to the
\* latest assigned server, whatever finite burst of notifications arrives and
\* whenever it arrives.
C16_EventuallyConnectedToLatest ==
  <>[]((reqs = <<"on">> /\ Latest(assigned) # "none") => ConnectedToLatest)

(* ---------------------------------------------------------------------- *)
(* ConnectionRefreshController: claims                                     *)
(* ---------------------------------------------------------------------- *)
\* This step issues a refreshConnection call from refresh(s) of instance i.
Issues(i) ==
  /\ Len(rc'.flights) = Len(rc.flights) + 1
  /\ rc'.flights[Len(rc'.flights)].inst = i

\* Instance i has no pending timer.
NoTimerOf(c, i) == \A t \in c.timers : t.inst # i

\* C17: if off() (or dispose(), which is off()) is requested while turnOn's
\* initialize is in flight, the run's signal is aborted; when initialize then
\* hands back a new refresher, that refresher is disposed at once and not
\* installed, and from then on it is never installed, holds no timer and
\* never issues a refresh.
C17_LateRefresherDisposedNeverInstalled ==
  /\ [][\A k \in 1..MaxEvents :
          (Get2Done(k, "ok") /\ runs[rc.inits[k].rn].aborted) =>
            LET i == Len(rc.insts) + 1
            IN /\ Len(rc'.insts) = i
               /\ rc'.insts[i].aborted
               /\ ~rc'.insts[i].installed
               /\ rc'.refresher = rc.refresher
               /\ NoTimerOf(rc', i)]_vars
  /\ [][\A i \in 1..Len(rc.insts) :
          (rc.insts[i].aborted /\ ~rc.insts[i].installed) =>
            /\ rc'.insts[i].aborted
            /\ ~rc'.insts[i].installed
            /\ rc'.refresher # i
            /\ NoTimerOf(rc', i)
            /\ ~Issues(i)]_vars

\* on() then off() while initialize was in flight, with a server assigned:
\* the refresher built by the aborted turnOn exists, disposed and never
\* installed, after assignment changes and a clock jump have gone by.
C17_Witness ==
  /\ reqs = <<"on", "off">>
  /\ runs[1].aborted /\ runs[1].phase = "done" /\ runs[1].outcome = "ok"
  /\ Len(rc.insts) = 1
  /\ rc.insts[1].aborted /\ ~rc.insts[1].installed
  /\ rc.refresher = 0
  /\ DOMAIN rc.servers # {}
  /\ notifs > 0

\* C18: turnOff disposes the installed refresher and clears the reference,
\* and its promise is settled when it returns (it awaits no external call).
\* A refresher is installed only while the controller was last asked to be
\* on, so every off() with a refresher installed reaches turnOff; and a
\* refresh is only ever issued by the installed, undisposed refresher.
C18_TurnOffDisposesInstalledRefresher ==
  /\ [][(rcOff /\ rc.refresher # 0) =>
          /\ rc'.insts[rc.refresher].aborted
          /\ rc'.insts[rc.refresher].refreshes = EmptyMap
          /\ NoTimerOf(rc', rc.refresher)
          /\ rc'.refresher = 0
          /\ rc'.inits = rc.inits
          /\ runs'[Len(runs')].phase = "settled"
          /\ runs'[Len(runs')].outcome = "ok"]_vars
  /\ [](rc.refresher # 0 => lastToggle = "on")
  /\ [][\A i \in 1..Len(rc.insts) :
          Issues(i) => (rc.refresher = i /\ ~rc.insts[i].aborted)]_vars

\* on(), the refresher is installed, the clock reaches a timer's due time,
\* then off(): the refresher is disposed with that timer.
C18_Witness ==
  /\ reqs = <<"on", "off">>
  /\ Len(rc.insts) = 1
  /\ rc.insts[1].installed /\ rc.insts[1].aborted
  /\ rc.refresher = 0
  /\ rc.ticks = 1
  /\ rc.timers = {}

(* ---------------------------------------------------------------------- *)
(* ConnectionRefresher.initialize: claims                                  *)
(* ---------------------------------------------------------------------- *)
\* Where the initialize call made by run rn is suspended ("none": it has
\* not been called or has ended).
InitPc(c, rn) ==
  IF \E k \in 1..Len(c.inits) : c.inits[k].rn = rn
    THEN c.inits[CHOOSE k \in 1..Len(c.inits) : c.inits[k].rn = rn].pc
    ELSE "none"

\* This step ends the initialize call of run rn without an instance.
FailsWithoutInstance(rn) ==
  /\ InitPc(rc', rn) = "none"
  /\ runs'[rn].outcome \in {"aborted", "error"}
  /\ rc'.insts = rc.insts
  /\ rc'.timers = rc.timers

\* C19 as stated: whenever the signal of an initialize call is aborted
\* before the call returns (during the first fetch, the refreshes or the
\* re-fetch), the call fails and constructs no instance, schedules no timer
\* and subscribes no listener.
C19_AbortAnywhereFailsWithoutInstance ==
  [][\A rn \in 1..Len(runs) :
       (runs[rn].aborted /\ InitPc(rc, rn) # "none" /\ InitPc(rc', rn) = "none")
         => FailsWithoutInstance(rn)]_vars

\* C19, amended: the signal is looked at once, after the refreshes. A call
\* whose signal is aborted during the first fetch or the refreshes never
\* reaches the re-fetch: it ends with a failure and without an instance, and
\* when the fetch and the refreshes all succeed the failure is initialize's
\* own "aborted" error. (A signal aborted during the re-fetch is not looked
\* at: the instance is constructed and handed to the caller.)
C19_AbortBeforeRefetchFailsWithoutInstance ==
  /\ [][\A rn \in 1..Len(runs) :
          (runs[rn].aborted /\ InitPc(rc, rn) \in {"get1", "refreshing"}) =>
            /\ InitPc(rc', rn) \in {"get1", "refreshing", "none"}
            /\ InitPc(rc', rn) = "none" => FailsWithoutInstance(rn)]_vars
  /\ [][\A k \in 1..MaxEvents :
          (AfterRefreshes(k) /\ runs[rc.inits[k].rn].aborted) =>
            runs'[rc.inits[k].rn].outcome = "aborted"]_vars
  /\ [][Len(rc'.insts) > Len(rc.insts) =>
          \E k \in 1..MaxEvents : Get2Done(k, "ok")]_vars

\* on(), then off() while a refresh issued by initialize was in flight: the
\* refresh succeeded (the server has a fresh token), initialize threw its
\* "aborted" error and no instance exists.
C19_Witness ==
  /\ reqs = <<"on", "off">>
  /\ runs[1].aborted /\ runs[1].outcome = "aborted"
  /\ rc.insts = <<>>
  /\ rc.timers = {}
  /\ \E id \in DOMAIN rc.servers : rc.servers[id] = rc.now + TokenLifetimeMs

\* C20: when the first fetch resolves, initialize issues a refresh for
\* exactly the fetched servers whose expiry is at most now + the refresh
\* buffer; the re-fetch is only in flight once none of those refreshes is
\* pending; and the instance built from the re-fetch tracks exactly the
\* re-fetched servers, with one pending timer for each, due at its buffered
\* refresh time (when turnOn does not dispose it at once).
C20_RefreshesExpiringThenSchedulesRefetched ==
  /\ [][\A k \in 1..MaxEvents :
          Get1Done(k, "ok") =>
            rc'.inits[k].pending =
              {id \in DOMAIN rc.servers :
                 rc.servers[id] <= rc.now + REFRESH_BUFFER_MS}]_vars
  /\ [](\A k \in 1..Len(rc.inits) :
          rc.inits[k].pc = "get2" => rc.inits[k].pending = {})
  /\ [][\A k \in 1..MaxEvents :
          (Get2Done(k, "ok") /\ ~runs[rc.inits[k].rn].aborted) =>
            LET i == Len(rc.insts) + 1
                mine == {t \in rc'.timers : t.inst = i}
            IN /\ Len(rc'.insts) = i
               /\ DOMAIN rc'.insts[i].refreshes = DOMAIN rc.servers
               /\ Cardinality(mine) = Cardinality(DOMAIN rc.servers)
               /\ \A id \in DOMAIN rc.servers :
                    \E t \in mine :
                      /\ t.id = id
                      /\ t.exp = rc.servers[id]
                      /\ t.h = rc'.insts[i].refreshes[id].timer
                      /\ t.due = IF rc.servers[id] - rc.now - REFRESH_BUFFER_MS > MinDelayMs
                                   THEN rc.servers[id] - REFRESH_BUFFER_MS
                                   ELSE rc.now + MinDelayMs]_vars

\* on() with two servers assigned, one expiring on the edge of the buffer
\* and one just outside it: the first was refreshed, the second was not, and
\* the installed instance holds a timer for each.
C20_Witness ==
  /\ reqs = <<"on">>
  /\ notifs = 0 /\ rc.ticks = 0
  /\ rc.refresher = 1
  /\ DOMAIN rc.servers = ServerIds
  /\ rc.servers["s1"] = rc.now + TokenLifetimeMs
  /\ rc.servers["s2"] = rc.now + REFRESH_BUFFER_MS + 1
  /\ Cardinality(rc.timers) = 2
  /\ DOMAIN rc.insts[1].refreshes = ServerIds

(* ---------------------------------------------------------------------- *)
(* ConnectionRefresher: claims                                             *)
(* ---------------------------------------------------------------------- *)
\* The timers set by this step.
NewTimers == rc'.timers \ rc.timers

\* This step is the catch clause of refresh(s) after a plain failure.
FailureStep == \E j \in 1..MaxTimers : RefreshDone(j, "error")

\* C21: a timer set for a server by the constructor or by a change
\* notification is due max(expiry - now - REFRESH_BUFFER_MS, MinDelayMs)
\* after it is set: at expiry - REFRESH_BUFFER_MS when that is more than
\* MinDelayMs away, else after MinDelayMs, never after a zero or negative
\* delay. A timer's callback runs no sooner than its due time.
C21_TimerDueAtBufferedDelay ==
  /\ [](\A t \in rc.timers :
          (rc.now = 0 /\ notifs = 0) =>
            t.due = IF t.exp - REFRESH_BUFFER_MS > MinDelayMs
                      THEN t.exp - REFRESH_BUFFER_MS ELSE MinDelayMs)
  /\ [][\A t \in NewTimers :
          /\ t.due >= rc.now + MinDelayMs
          /\ ~FailureStep =>
               t.due = IF t.exp - rc.now - REFRESH_BUFFER_MS > MinDelayMs
                         THEN t.exp - REFRESH_BUFFER_MS
                         ELSE rc.now + MinDelayMs]_vars
  /\ [][\A t \in rc.timers \ rc'.timers :
          (\E i \in 1..Len(rc.insts) : Issues(i)) => t.due <= rc.now]_vars

\* A server whose token expires REFRESH_BUFFER_MS + 1000 after construction:
\* the clock has gone straight to 1000 and the refresh has just been issued.
C21_Witness ==
  /\ rc.ticks = 1 /\ notifs = 0
  /\ rc.now = 1000
  /\ Len(rc.flights) = 1
  /\ rc.flights[1].exp = REFRESH_BUFFER_MS + 1000
  /\ rc.timers = {}

\* The pending timer the map of instance i holds for server id, as a set
\* (empty when the server is untracked or its timer has fired).
EntryTimer(c, i, id) ==
  IF id \in DOMAIN c.insts[i].refreshes
    THEN {t \in c.timers : t.h = c.insts[i].refreshes[id].timer}
    ELSE {}

\* C22: when the refreshConnection call of a timer's refresh(s) rejects with
\* a plain error on an undisposed instance and more than RETRY_BUFFER_MS
\* remains until the expiry of s, exactly one timer is set, due
\* RETRY_BUFFER_MS later, no timer is cleared and the server is tracked with
\* that timer. When a refresh (a retry included) succeeds, the change
\* notification carrying the new expiry makes the instance record it and
\* set the server's timer REFRESH_BUFFER_MS before the new expiry.
C22_FailureWithTimeLeftRetriesOnce ==
  /\ [][\A j \in 1..Len(rc.flights) :
          LET f == rc.flights[j]
          IN (/\ RefreshDone(j, "error")
              /\ ~rc.insts[f.inst].aborted
              /\ f.exp - rc.now > RETRY_BUFFER_MS) =>
               /\ Cardinality(NewTimers) = 1
               /\ rc.timers \subseteq rc'.timers
               /\ \A t \in NewTimers :
                    /\ t.id = f.id /\ t.inst = f.inst /\ t.exp = f.exp
                    /\ t.due = rc.now + RETRY_BUFFER_MS
                    /\ EntryTimer(rc', f.inst, f.id) = {t}]_vars
  /\ [][\A j \in 1..Len(rc.flights) :
          LET f == rc.flights[j]
              exp == rc.now + TokenLifetimeMs
          IN (/\ RefreshDone(j, "ok")
              /\ ~rc.insts[f.inst].aborted
              /\ f.id \in DOMAIN rc.insts[f.inst].refreshes) =>
               /\ rc'.insts[f.inst].refreshes[f.id].expiry = exp
               /\ \E t \in EntryTimer(rc', f.inst, f.id) :
                    /\ t.exp = exp
                    /\ t.due = exp - REFRESH_BUFFER_MS]_vars

\* A refresh failed with time left, the retry timer came due RETRY_BUFFER_MS
\* later, the retry succeeded and the server's only timer is now due
\* REFRESH_BUFFER_MS before its new expiry.
C22_Witness ==
  /\ rc.ticks = 2 /\ notifs = 0 /\ rc.disposals = 0
  /\ rc.now = 1000 + RETRY_BUFFER_MS
  /\ rc.flights = <<>>
  /\ DOMAIN rc.servers = {"s1"}
  /\ rc.servers["s1"] = rc.now + TokenLifetimeMs
  /\ \E t \in rc.timers :
       /\ rc.timers = {t}
       /\ t.due = rc.servers["s1"] - REFRESH_BUFFER_MS
       /\ EntryTimer(rc, 1, "s1") = {t}

\* The pending timers instance i set for server id.
TimersFor(c, i, id) == {t \in c.timers : t.inst = i /\ t.id = id}

\* The steps in which a refresh of instance i's server rejects with a plain
\* error on an undisposed instance although no more than RETRY_BUFFER_MS
\* remains until the expiry of the server the timer was set for.
GivesUp(j) ==
  /\ j \in 1..Len(rc.flights)
  /\ RefreshDone(j, "error")
  /\ ~rc.insts[rc.flights[j].inst].aborted
  /\ rc.flights[j].exp - rc.now <= RETRY_BUFFER_MS

\* C23: when a refresh rejects with a plain error and no more than
\* RETRY_BUFFER_MS remains until expiry, the server is untracked afterwards,
\* no timer of the instance is pending for it and the step sets no timer.
C23_FailureNearExpiryDrops ==
  [][\A j \in 1..Len(rc.flights) :
       LET f == rc.flights[j]
       IN GivesUp(j) =>
            /\ f.id \notin DOMAIN rc'.insts[f.inst].refreshes
            /\ NewTimers = {}
            /\ TimersFor(rc', f.inst, f.id) = {}]_vars

\* The part of C23 the code keeps: the server is untracked, the timer its
\* map entry held is cleared and no timer is set.
C23_FailureNearExpiryUntracks ==
  [][\A j \in 1..Len(rc.flights) :
       LET f == rc.flights[j]
       IN GivesUp(j) =>
            /\ f.id \notin DOMAIN rc'.insts[f.inst].refreshes
            /\ NewTimers = {}
            /\ EntryTimer(rc, f.inst, f.id) \cap rc'.timers = {}]_vars

\* After one retry a refresh was given up with exactly RETRY_BUFFER_MS left: nothing is
\* tracked, pending or in flight.
C23_Witness ==
  /\ rc.ticks = 2 /\ notifs = 0 /\ rc.disposals = 0
  /\ rc.now = MinDelayMs + RETRY_BUFFER_MS
  /\ rc.servers = [id \in {"s1"} |-> rc.now + RETRY_BUFFER_MS]
  /\ rc.insts[1].refreshes = EmptyMap
  /\ rc.timers = {} /\ rc.flights = <<>>

\* C24: when a refresh rejects with NotFoundError on an undisposed
\* instance, whatever time remains until expiry, the server is untracked
\* afterwards, the timer its map entry held is no longer pending and the
\* step sets no timer.
C24_NotFoundUntracksWithoutRetry ==
  [][\A j \in 1..Len(rc.flights) :
       LET f == rc.flights[j]
       IN (RefreshDone(j, "notfound") /\ ~rc.insts[f.inst].aborted) =>
            /\ f.id \notin DOMAIN rc'.insts[f.inst].refreshes
            /\ EntryTimer(rc, f.inst, f.id) \cap rc'.timers = {}
            /\ NewTimers = {}
            /\ rc'.timers \subseteq rc.timers]_vars

\* A refresh issued REFRESH_BUFFER_MS before expiry, with far more than
\* RETRY_BUFFER_MS left, rejected with NotFoundError: the server is
\* untracked and nothing is pending.
C24_Witness ==
  /\ rc.ticks = 1 /\ notifs = 0 /\ rc.disposals = 0
  /\ rc.now = 1000
  /\ rc.servers = [id \in {"s1"} |-> REFRESH_BUFFER_MS + 1000]
  /\ rc.insts[1].refreshes = EmptyMap
  /\ rc.timers = {} /\ rc.flights = <<>>

\* The steps in which one change event lists server id as changed, by one
\* of the given kinds of change that keep the time of its tokenExpiry, while
\* the undisposed instance 1 tracks it with an expiry of that time.
ChangedBy(id, kinds) ==
  /\ Len(rc.insts) = 1
  /\ ~rc.insts[1].aborted
  /\ id \in DOMAIN rc.insts[1].refreshes
  /\ id \in DOMAIN rc.servers
  /\ rc.insts[1].refreshes[id].expiry = rc.servers[id]
  /\ \E ops \in ChangeOpChoices, offset \in AddOffsets, rev \in BOOLEAN :
       /\ ops[id] \in kinds
       /\ AssignmentsChange(ops, offset, rev)

\* Nothing the refresher holds for server id changes in the step: neither
\* its map entry nor its pending timers.
ScheduleKept(id) ==
  /\ id \in DOMAIN rc'.insts[1].refreshes
  /\ rc'.insts[1].refreshes[id] = rc.insts[1].refreshes[id]
  /\ TimersFor(rc', 1, id) = TimersFor(rc, 1, id)

\* C25: a change event that lists a tracked server whose tokenExpiry is the
\* same point in time as the recorded expiry leaves the server's recorded
\* expiry and its pending timer as they were: no timer is cleared and none
\* is set.
C25_SameTimestampNoReschedule ==
  [][\A id \in ServerIds :
       ChangedBy(id, {"touch", "copy"}) => ScheduleKept(id)]_vars

\* The case the code keeps: the event carries the very Date object that
\* was recorded.
C25_SameDateObjectNoReschedule ==
  [][\A id \in ServerIds : ChangedBy(id, {"touch"}) => ScheduleKept(id)]_vars

\* C26: at every moment each instance has at most one pending timer per
\* server, and every pending timer is the one recorded in the instance's
\* map for a tracked server.
C26_OneTimerPerTrackedServer ==
  /\ \A i \in 1..Len(rc.insts) : \A id \in ServerIds :
       Cardinality(TimersFor(rc, i, id)) <= 1
  /\ \A t \in rc.timers : EntryTimer(rc, t.inst, t.id) = {t}

\* The steps in which one change event reaches the undisposed instance 1,
\* announces the removal of server id, and lists as changed only tracked
\* servers, changed in one of the given ways.
RemovedBy(id, kinds) ==
  /\ Len(rc.insts) = 1
  /\ ~rc.insts[1].aborted
  /\ \E ops \in ChangeOpChoices, offset \in AddOffsets, rev \in BOOLEAN :
       /\ ops[id] = "remove"
       /\ \A d \in ServerIds :
            ops[d] \in {"touch", "copy", "renew"} =>
              d \in DOMAIN rc.insts[1].refreshes /\ ops[d] \in kinds
       /\ AssignmentsChange(ops, offset, rev)

\* C27: after a change event whose changed entries all refer to tracked
\* servers, every removed server is untracked and has no pending timer,
\* whatever the event lists as added or changed; and a refresh is only ever
\* issued for a server that is assigned at that moment.
C27_RemovedServersUntracked ==
  /\ [][\A id \in ServerIds :
          RemovedBy(id, {"touch", "copy", "renew"}) =>
            /\ id \notin DOMAIN rc'.insts[1].refreshes
            /\ TimersFor(rc', 1, id) = {}]_vars
  /\ [][\A j \in 1..Len(rc'.flights) :
          j > Len(rc.flights) => rc'.flights[j].id \in DOMAIN rc.servers]_vars

\* What the code keeps: when every changed entry of the event carries a
\* Date object other than the recorded one, the removed servers are
\* untracked and the timers their map entries held are cleared.
C27_RemovedUntrackedAfterRealChanges ==
  [][\A id \in ServerIds :
       RemovedBy(id, {"copy", "renew"}) =>
         /\ id \notin DOMAIN rc'.insts[1].refreshes
         /\ EntryTimer(rc, 1, id) \cap rc'.timers = {}]_vars

\* The steps in which one change event reaches the undisposed instance 1 and
\* lists tracked server id as changed with a tokenExpiry of another time
\* than the recorded one, every other changed entry being for a tracked
\* server and changed in one of the given ways.
RenewedBy(id, kinds) ==
  /\ Len(rc.insts) = 1
  /\ ~rc.insts[1].aborted
  /\ id \in DOMAIN rc.insts[1].refreshes
  /\ rc.insts[1].refreshes[id].expiry # rc.now + TokenLifetimeMs
  /\ \E ops \in ChangeOpChoices, offset \in AddOffsets, rev \in BOOLEAN :
       /\ ops[id] = "renew"
       /\ \A d \in ServerIds \ {id} :
            ops[d] \in {"touch", "copy", "renew"} =>
              d \in DOMAIN rc.insts[1].refreshes /\ ops[d] \in kinds
       /\ AssignmentsChange(ops, offset, rev)

\* The timer the map held for the server is cleared, the new expiry is
\* recorded and the map holds a pending timer set for that expiry.
Rescheduled(id) ==
  LET exp == rc.now + TokenLifetimeMs
  IN /\ EntryTimer(rc, 1, id) \cap rc'.timers = {}
     /\ id \in DOMAIN rc'.insts[1].refreshes
     /\ rc'.insts[1].refreshes[id].expiry = exp
     /\ \E t \in EntryTimer(rc', 1, id) :
          /\ t.exp = exp
          /\ t.due = exp - REFRESH_BUFFER_MS

\* C28: every changed entry of a change event whose tokenExpiry differs from
\* the recorded expiry is rescheduled, wherever it stands among the changed
\* entries, and exactly one timer set for the new expiry is pending.
C28_EveryChangedExpiryRescheduled ==
  [][\A id \in ServerIds :
       RenewedBy(id, {"touch", "copy", "renew"}) =>
         /\ Rescheduled(id)
         /\ Cardinality({t \in TimersFor(rc', 1, id) :
                           t.exp = rc.now + TokenLifetimeMs}) = 1]_vars

\* What the code keeps: the entry is rescheduled when no changed entry
\* of the event carries its recorded Date object.
C28_RescheduledAfterRealChanges ==
  [][\A id \in ServerIds :
       RenewedBy(id, {"copy", "renew"}) => Rescheduled(id)]_vars

\* Some instance has been disposed.
Disposed(c) == \E i \in 1..Len(c.insts) : c.insts[i].aborted

\* C29: once dispose() has been called the instance tracks nothing and has
\* no pending timer, and that stays so: change events, completions of
\* refreshes in flight (successful or failed), timer callbacks and further
\* dispose() calls set no timer, track nothing and start no refresh.
C29_DisposedStaysIdle ==
  /\ [](\A i \in 1..Len(rc.insts) :
          rc.insts[i].aborted =>
            rc.insts[i].refreshes = EmptyMap /\ NoTimerOf(rc, i))
  /\ [][\A i \in 1..Len(rc.insts) :
          rc.insts[i].aborted =>
            /\ rc'.insts[i] = rc.insts[i]
            /\ \A t \in NewTimers : t.inst # i
            /\ \A j \in 1..Len(rc'.flights) :
                 j > Len(rc.flights) => rc'.flights[j].inst # i]_vars

\* What the code keeps of C29: a disposed instance tracks nothing, and no
\* step sets a timer for it, tracks a server or starts a refresh, whatever
\* happens; a second dispose() changes nothing.
C29_DisposedSchedulesNothing ==
  /\ [](\A i \in 1..Len(rc.insts) :
          rc.insts[i].aborted => rc.insts[i].refreshes = EmptyMap)
  /\ [][\A i \in 1..Len(rc.insts) :
          rc.insts[i].aborted =>
            /\ rc'.insts[i] = rc.insts[i]
            /\ \A t \in NewTimers : t.inst # i
            /\ \A j \in 1..Len(rc'.flights) :
                 j > Len(rc.flights) => rc'.flights[j].inst # i]_vars
  /\ [][(Disposed(rc) /\ RefresherDispose(1)) =>
          /\ rc'.timers = rc.timers
          /\ rc'.flights = rc.flights]_vars

Opens(k) ==
  /\ TearDownDone(k)
  /\ Len(lcc'.clients) > Len(lcc.clients)

\* C31: once the change listener has decided to act, no pass that began
\* before that decision (the initial pass of initialize or an earlier
\* reaction of the listener) constructs a client any more, however the
\* suspended tearDownClient and latestServer calls of the passes interleave.
C31_SupersededPassNeverOpens ==
  [][\A k \in 1..Len(lcc.tasks) :
       Opens(k) => lcc.tasks[k].born >= lcc.reacted]_vars

\* What the code keeps: only a reaction of the listener can construct a
\* client after a later decision to act; the initial pass of initialize,
\* whose AbortController the listener aborts, never does.
C31_PassWithSignalSuperseded ==
  [][\A k \in 1..Len(lcc.tasks) :
       (Opens(k) /\ lcc.tasks[k].born < lcc.reacted) =>
         lcc.tasks[k].kind = "listener"]_vars

\* The activations of initialize and of the listener that are suspended.
Passes(c) == {j \in 1..Len(c.tasks) : c.tasks[j].kind # "off"}

\* The held client was started successfully, has not been disposed and
\* points at endpoint ep.
OpenTo(c, ep) ==
  /\ c.client # 0
  /\ c.clients[c.client].endpoint = ep
  /\ c.clients[c.client].disposals = 0
  /\ c.client \notin c.broken
  /\ \A j \in 1..Len(c.tasks) :
       ~(c.tasks[j].pc = "start" /\ c.tasks[j].cl = c.client)

\* The steps in which latestServer() or client.start() rejects for the
\* activation k.
CallFails(k) == FetchDone(k, "error") \/ StartDone(k, "error")

\* The server latestServer() returned, or returns in this step, to the
\* activation k.
Fetched(k) ==
  IF lcc.tasks[k].pc = "fetch" THEN Latest(assigned) ELSE lcc.tasks[k].srv

\* The steps in which the activation k, the only suspended one, returns
\* without any of its calls having failed.
PassReturns(k) ==
  /\ Len(lcc.tasks) = 1
  /\ lcc.tasks[k].kind # "off"
  /\ FetchDone(k, "ok") \/ TearDownDone(k) \/ StartDone(k, "ok")
  /\ Passes(lcc') = {}

\* What the code keeps of C32: a rejected call is not retried.
C32_FailureStartsNothing ==
  [][\A k \in 1..Len(lcc.tasks) :
       CallFails(k) =>
         /\ lcc'.tasks = RemoveAt(lcc.tasks, k)
         /\ lcc'.clients = lcc.clients
         /\ lcc'.acs = lcc.acs]_vars

\* C32: when latestServer() or client.start() rejects, the controller starts
\* nothing in the same step: no activation, no AbortController and no client
\* is created. And it is not wedged: while the controller is turned on, a
\* pass begun after the failure (by an acting change event or by a new
\* on()) that runs to its end with every call succeeding leaves a started,
\* undisposed client for the server latestServer() gave it held.
C32_FailureNotRetriedNotWedged ==
  /\ [][\A k \in 1..Len(lcc.tasks) :
          CallFails(k) =>
            /\ lcc'.tasks = RemoveAt(lcc.tasks, k)
            /\ lcc'.clients = lcc.clients
            /\ lcc'.acs = lcc.acs]_vars
  /\ [][\A k \in 1..Len(lcc.tasks) :
          (/\ PassReturns(k)
           /\ lastToggle = "on"
           /\ lcc.failedAt > 0
           /\ lcc.tasks[k].born >= lcc.failedAt
           /\ Fetched(k) # "none") =>
            OpenTo(lcc', Fetched(k))]_vars

(* ---------------------------------------------------------------------- *)
(* AsyncToggle: the recorded direction                                     *)
(* ---------------------------------------------------------------------- *)
\* The direction of the most recent on() / off() request.
LastRequested ==
  IF reqs = <<>> THEN "none" ELSE reqs[Len(reqs)]

\* C33: the recorded toggle direction always equals the direction of the most
\* recent on() / off() request; it changes only in a request step, and the
\* settling of a hook or the finishing of a run (current or superseded,
\* whatever the outcome) leaves it as it was.
C33_DirectionFollowsRequestsOnly ==
  /\ [](lastToggle = LastRequested)
  /\ [][lastToggle' # lastToggle
          => op'[1] \in ToggleDirection /\ Len(reqs') = Len(reqs) + 1]_vars
  /\ [][op'[1] \in {"settle", "finish"} => lastToggle' = lastToggle]_vars

\* A superseded turnOn hook that failed finishes after the turnOff hook that
\* superseded it has finished: the recorded direction is still "off".
C33_Witness ==
  /\ reqs = <<"on", "off">>
  /\ op = <<"finish", 1>>
  /\ runs[1].hook /\ runs[1].aborted /\ runs[1].outcome = "error"
  /\ runs[2].hook /\ runs[2].phase = "done" /\ runs[2].outcome = "abortError"
  /\ lastToggle = "off"

(* ---------------------------------------------------------------------- *)
(* ConnectionRefresher: bounded retry                                      *)
(* ---------------------------------------------------------------------- *)
\* Instance i tracks nothing, and none of its timers or refreshConnection
\* calls is pending.
Idle(c, i) ==
  /\ c.insts[i].refreshes = EmptyMap
  /\ NoTimerOf(c, i)
  /\ \A j \in 1..Len(c.flights) : c.flights[j].inst # i

\* C34: when every refresh of a tracked server fails with a plain error and
\* no notification changes its expiry, every retry timer is due
\* RETRY_BUFFER_MS after the failure that set it and is set only while more
\* than RETRY_BUFFER_MS remains, a failure that finds no more than
\* RETRY_BUFFER_MS remaining untracks the server, and eventually nothing is
\* tracked, pending or in flight for good: the retries end.
C34_RetriesEnd ==
  /\ [][\A j \in 1..Len(rc.flights) :
          LET f == rc.flights[j]
          IN RefreshDone(j, "error") =>
               IF f.exp - rc.now > RETRY_BUFFER_MS
                 THEN \E t \in NewTimers :
                        /\ NewTimers = {t}
                        /\ t.id = f.id /\ t.exp = f.exp
                        /\ t.due = rc.now + RETRY_BUFFER_MS
                 ELSE /\ NewTimers = {}
                      /\ f.id \notin DOMAIN rc'.insts[f.inst].refreshes]_vars
  /\ <>[]Idle(rc, 1)

\* A server whose refreshes failed three times, each retry RETRY_BUFFER_MS
\* after the failure before, is dropped with exactly RETRY_BUFFER_MS left.
C34_Witness ==
  /\ rc.ticks = 3
  /\ rc.now = MinDelayMs + 2 * RETRY_BUFFER_MS
  /\ "s1" \in DOMAIN rc.servers
  /\ rc.servers["s1"] = rc.now + RETRY_BUFFER_MS
  /\ Idle(rc, 1)

(* ---------------------------------------------------------------------- *)
(* ColabLanguageClient: teardown                                           *)
(* ---------------------------------------------------------------------- *)
\* This step calls tearDownClient while the controller holds no client.
TearDownWithoutClient ==
  /\ lcc.client = 0
  /\ \/ Len(lcc'.tasks) > Len(lcc.tasks) /\ notifs' = notifs + 1
     \/ \E k \in 1..Len(lcc.tasks) :
          FetchDone(k, "ok") /\ Latest(assigned) = "none"

\* C35: tearing down while no connection is held disposes nothing and
\* changes neither the held client nor the recorded endpoint, and however
\* the dispose() calls on one ColabLanguageClient are timed, a second call
\* before the first has returned included, its LanguageClient is disposed at
\* most once.
C35_TeardownIdempotent ==
  /\ [][TearDownWithoutClient =>
          /\ lcc'.clients = lcc.clients
          /\ lcc'.client = 0
          /\ lcc'.latestServerEndpoint = lcc.latestServerEndpoint]_vars
  /\ [](\A n \in 1..Len(lcc.clients) : lcc.clients[n].lsDisposals <= 1)

\* The part of C35 the code keeps: tearing down without a client does
\* nothing, and no dispose() call reaches a LanguageClient after a dispose()
\* of its ColabLanguageClient has returned.
C35_TeardownWithoutClientDoesNothing ==
  /\ [][TearDownWithoutClient =>
          /\ lcc'.clients = lcc.clients
          /\ lcc'.client = 0
          /\ lcc'.latestServerEndpoint = lcc.latestServerEndpoint]_vars
  /\ [][\A n \in 1..Len(lcc.clients) :
          lcc.clients[n].closed =>
            lcc'.clients[n].lsDisposals = lcc.clients[n].lsDisposals]_vars

(* ---------------------------------------------------------------------- *)
(* ConnectionRefreshController: what the toggle leaves installed           *)
(* ---------------------------------------------------------------------- *)
\* No hook of the toggle is in flight: every run of the runner has finished
\* and no initialize is suspended.
HooksSettled == AllDone /\ rc.inits = <<>>

\* No getAssignedServers or refreshConnection call of an initialize rejected.
InitCallsSucceeded == \A i \in Idx : runs[i].outcome # "error"

\* An undisposed refresher is installed.
RefresherInstalled ==
  rc.refresher # 0 /\ ~rc.insts[rc.refresher].aborted

\* C36: whenever the most recent request is on() and every external call of
\* the turnOn hooks succeeded, an undisposed refresher is installed once
\* every hook has settled, also when on() was requested again while an
\* earlier turnOn was initializing.
C36_OnEndsInstalled ==
  (lastToggle = "on" /\ HooksSettled /\ InitCallsSucceeded)
    => RefresherInstalled

\* The run of the turnOn hook invoked last.
LastHook ==
  CHOOSE i \in Idx : runs[i].hook /\ \A j \in Idx : runs[j].hook => j <= i

\* What the code keeps of C36: with the most recent request on(), a refresher
\* is installed whenever the turnOn hook invoked last returned without its
\* signal having been aborted, that is when no request followed the on()
\* that started it before it settled.
C36_OnUndisturbedEndsInstalled ==
  (lastToggle = "on" /\ HooksSettled
   /\ runs[LastHook].outcome = "ok" /\ ~runs[LastHook].aborted)
    => RefresherInstalled

(* ---------------------------------------------------------------------- *)
(* AsyncToggle: a hook that fails                                          *)
(* ---------------------------------------------------------------------- *)
\* The hook of run i has rejected with an error that is not a cancellation,
\* and every request made since asked for the same direction.
FailedAndNotReversed(i) ==
  /\ runs[i].hook
  /\ runs[i].outcome = "error"
  /\ \A j \in Idx : j > i => reqs[j] = reqs[i]

\* This step is a request for direction d.
Requests(d) == StartedRun /\ reqs' = Append(reqs, d)

\* C37: the direction is recorded in the step that invokes the hook, so
\* after a hook has failed with an error that is not a cancellation the
\* toggle still records its direction; a further request for that direction
\* with no opposite request in between invokes no hook, and a request that
\* follows an opposite request invokes the hook again.
C37_FailedHookKeepsDirection ==
  /\ [][\A d \in ToggleDirection :
          (Requests(d) /\ runs'[Len(runs')].hook)
            => lastToggle # d /\ lastToggle' = d]_vars
  /\ [](\A i \in Idx : FailedAndNotReversed(i) => lastToggle = reqs[i])
  /\ [][\A d \in ToggleDirection :
          (Requests(d) /\ \E i \in Idx : FailedAndNotReversed(i) /\ reqs[i] = d)
            => /\ ~runs'[Len(runs')].hook
               /\ HookCalls(d)' = HookCalls(d)]_vars
  /\ [][\A d \in ToggleDirection :
          (Requests(d) /\ lastToggle = Opposite(d)
           /\ \E i \in Idx : runs[i].hook /\ runs[i].arg = d
                             /\ runs[i].outcome = "error")
            => /\ runs'[Len(runs')].hook
               /\ HookCalls(d)' = HookCalls(d) + 1]_vars

\* turnOn failed and its run finished; on() again invoked no hook; after
\* off(), a further on() invoked turnOn a second time.
C37_Witness ==
  /\ reqs = <<"on", "on", "off", "on">>
  /\ runs[1].hook /\ runs[1].outcome = "error" /\ ~runs[1].aborted
  /\ ~runs[2].hook
  /\ runs[3].hook
  /\ runs[4].hook
  /\ HookCalls("on") = 2

(* ---------------------------------------------------------------------- *)
(* ConnectionRefreshController: refreshers and timers at rest              *)
(* ---------------------------------------------------------------------- *)
\* No turnOn / turnOff hook is in flight.
NoHookInFlight ==
  rc.inits = <<>> /\ \A i \in Idx : ~HookInFlight(i)

\* The refreshers constructed so far that have not been disposed.
Undisposed(c) == {i \in 1..Len(c.insts) : ~c.insts[i].aborted}

\* C38: whenever no toggle hook is in flight, no undisposed refresher exists
\* besides the installed one, and if the most recent request was off() (or
\* dispose()) no undisposed refresher exists and no refresh timer is pending.
C38_AtRestOneRefresherNoneWhenOff ==
  NoHookInFlight =>
    /\ Undisposed(rc) \subseteq {rc.refresher}
    /\ lastToggle = "off" => (Undisposed(rc) = {} /\ rc.timers = {})

\* What the code keeps of C38: at rest no undisposed refresher exists besides
\* the installed one, none exists after off(), and every timer then pending
\* belongs to a disposed refresher, whose callback returns at once.
C38_AtRestOneRefresherNoLiveTimerWhenOff ==
  NoHookInFlight =>
    /\ Undisposed(rc) \subseteq {rc.refresher}
    /\ lastToggle = "off" =>
         /\ Undisposed(rc) = {}
         /\ \A t \in rc.timers : rc.insts[t.inst].aborted

(* ---------------------------------------------------------------------- *)
(* ConnectionRefresher: a removal during a refresh                         *)
(* ---------------------------------------------------------------------- *)
\* The refreshConnection call j is in flight for a server that has been
\* unassigned since and that its undisposed instance no longer tracks: the
\* removal was handled while the refresh was in flight.
RemovedInFlight(j) ==
  /\ j \in 1..Len(rc.flights)
  /\ ~rc.insts[rc.flights[j].inst].aborted
  /\ rc.flights[j].id \notin DOMAIN rc.servers
  /\ rc.flights[j].id \notin DOMAIN rc.insts[rc.flights[j].inst].refreshes

\* The server of flight j is untracked after the step and the step set no
\* timer.
StaysUntracked(j) ==
  /\ rc.flights[j].id \notin DOMAIN rc'.insts[rc.flights[j].inst].refreshes
  /\ NewTimers = {}

\* C39: when the removal of a server has been handled while a refresh of it
\* was in flight, the failure of that refresh neither tracks the server
\* again nor sets a timer.
C39_FailureAfterRemovalStaysUntracked ==
  [][\A j \in 1..Len(rc.flights) :
       (RemovedInFlight(j)
        /\ (RefreshDone(j, "error") \/ RefreshDone(j, "notfound")))
         => StaysUntracked(j)]_vars

\* What the code keeps of C39: the server stays untracked and no timer is
\* set when the refresh fails with NotFoundError, or with another error
\* while no more than RETRY_BUFFER_MS remains until the expiry the timer was
\* set for.
C39_NotFoundAfterRemovalStaysUntracked ==
  [][\A j \in 1..Len(rc.flights) :
       (RemovedInFlight(j)
        /\ \/ RefreshDone(j, "notfound")
           \/ /\ RefreshDone(j, "error")
              /\ rc.flights[j].exp - rc.now <= RETRY_BUFFER_MS)
         => StaysUntracked(j)]_vars

(* ---------------------------------------------------------------------- *)
(* LanguageClientController: the recorded endpoint at rest                 *)
(* ---------------------------------------------------------------------- *)
\* latestServerEndpoint names an endpoint (it is neither undefined nor "").
EndpointRecorded(c) == c.latestServerEndpoint \in Endpoints

\* C40: whenever no reconciliation work is in flight, an endpoint is recorded
\* exactly when a client is held, and the held client was constructed for
\* the recorded endpoint; in particular a pass cancelled after its teardown
\* leaves no endpoint recorded without a client. (Stated for a controller
\* turned on once.)
C40_EndpointRecordedIffConnected ==
  (Quiescent /\ reqs = <<"on">>) =>
    /\ EndpointRecorded(lcc) <=> lcc.client # 0
    /\ lcc.client # 0 =>
         lcc.clients[lcc.client].endpoint = lcc.latestServerEndpoint

\* What the code keeps of C40: at any time, a held client comes with a
\* recorded endpoint.
C40_HeldClientHasEndpointRecorded ==
  lcc.client # 0 => EndpointRecorded(lcc)

====
